---- MODULE Spec2Model ----
(***************************************************************************)
(* BluePadel match-lifecycle engine: the in-memory collections PLAYERS and *)
(* MATCHES, the confirmation scan, the player-response bridge, the         *)
(* replacement resolver, the cancellation policy and the daily trigger.    *)
(*                                                                         *)
(* Representation:                                                         *)
(*  - a skill level 5.825 is the integer 5825 (thousandths);               *)
(*  - an ISO timestamp is the number of seconds since 2025-02-08T00:00:00, *)
(*    so that the source's string comparison of two timestamps is the      *)
(*    integer comparison of two instants;                                  *)
(*  - an absent optional field is "" (strings), -1 (instants) or <<>>      *)
(*    (notificaciones);                                                    *)
(*  - a message printed as "[MOCK ...]" by the source stands for the       *)
(*    message the notification channel would carry, and is recorded in     *)
(*    the list of messages of the operation that printed it.               *)
(***************************************************************************)
EXTENDS Integers, Sequences, FiniteSets, TLC

VARIABLES PLAYERS, MATCHES, ultima, respondieronSI

vars == <<PLAYERS, MATCHES, ultima, respondieronSI>>

(***************************************************************************)
(* Generic helpers                                                         *)
(***************************************************************************)

Abs(n) == IF n < 0 THEN -n ELSE n

Range(s) == {s[i] : i \in 1..Len(s)}

\* Array.prototype.includes
Includes(s, e) == \E i \in 1..Len(s) : s[i] = e

\* The least of a set of positions, 0 when the set is empty: the position of
\* the element Array.prototype.find returns, which is undefined when no
\* element passes the test.
Primero(hits) ==
  IF hits = {} THEN 0 ELSE CHOOSE i \in hits : \A j \in hits : i <= j

RECURSIVE FlatSeq(_)
\* Concatenation of a sequence of sequences (Array.prototype.flatMap).
FlatSeq(ss) == IF ss = <<>> THEN <<>> ELSE Head(ss) \o FlatSeq(Tail(ss))

RECURSIVE SumSeq(_)
SumSeq(s) == IF s = <<>> THEN 0 ELSE Head(s) + SumSeq(Tail(s))

RECURSIVE InsertByKey(_, _)
\* Insert the pair e = [k, v] after every pair whose key is <= e.k: equal keys
\* stay in arrival order, as with the stable Array.prototype.sort.
InsertByKey(sorted, e) ==
  IF sorted = <<>> THEN <<e>>
  ELSE IF Head(sorted).k <= e.k
       THEN <<Head(sorted)>> \o InsertByKey(Tail(sorted), e)
       ELSE <<e>> \o sorted

RECURSIVE SortPairs(_)
SortPairs(s) ==
  IF s = <<>> THEN <<>>
  ELSE InsertByKey(SortPairs(SubSeq(s, 1, Len(s) - 1)), s[Len(s)])

\* Stable ascending sort of s, keys[i] being the integer key of s[i].
SortByKey(s, keys) ==
  LET sorted == SortPairs([i \in 1..Len(s) |-> [k |-> keys[i], v |-> s[i]]])
  IN [i \in 1..Len(s) |-> sorted[i].v]

\* Seconds since 2025-02-08T00:00:00 of 2025-02-<dia>T<hh>:<mm>:00.
ISO(dia, hh, mm) == ((dia - 8) * 24 + hh) * 3600 + mm * 60

(***************************************************************************)
(* data/settings.ts                                                        *)
(***************************************************************************)

toleranciaDefault == 1000
toleranciaExtendida == 1500
minutosParaConfirmar == 60
horasUltimoMomento == 2
horasMaximaEsperaPartido == 48
jugadoresMinimosParaCrear == 1
balancearParejas == TRUE
maxIntentosReemplazo == 3
notificarCancelacion == TRUE

\* HORARIOS_CLUB.slots, each "HH:MM" as minutes after midnight.
slots == <<420, 510, 600, 690, 780, 900, 990, 1080, 1170, 1260>>

(***************************************************************************)
(* data/players.ts                                                         *)
(***************************************************************************)

Player(id, nivel, tel, disp) ==
  [id |-> id, nivelNumerico |-> nivel, telefono |-> tel, disponible |-> disp]

PLAYERS_DATA == <<
  Player("p1",  3900, "5491122334455", TRUE),
  Player("p2",  3500, "5491133445566", TRUE),
  Player("p3",  4800, "5491144556677", TRUE),
  Player("p4",  4500, "5491155667788", FALSE),
  Player("p5",  4100, "5491166778899", TRUE),
  Player("p6",  5900, "5491177889900", TRUE),
  Player("p7",  5400, "5491188990011", TRUE),
  Player("p8",  5300, "5491199001122", TRUE),
  Player("p9",  5000, "5491100112233", FALSE),
  Player("p10", 6700, "5491111223344", TRUE),
  Player("p11", 6600, "5491122334455", TRUE),
  Player("p12", 6300, "5491133445566", TRUE),
  Player("p13", 6000, "5491144556677", TRUE),
  Player("p14", 7800, "5491155667788", TRUE),
  Player("p15", 7400, "5491166778899", FALSE),
  Player("p16", 7100, "5491177889900", TRUE),
  Player("p17", 8300, "5491188990011", TRUE),
  Player("p18", 8000, "5491199001122", TRUE) >>

\* What a lookup returns when it finds nothing (undefined).
NoPlayer == Player("", 0, "", FALSE)

getPlayerById(id) ==
  LET i == Primero({k \in 1..Len(PLAYERS) : PLAYERS[k].id = id})
  IN IF i = 0 THEN NoPlayer ELSE PLAYERS[i]

getPlayerByPhone(telefono) ==
  LET i == Primero({k \in 1..Len(PLAYERS) : PLAYERS[k].telefono = telefono})
  IN IF i = 0 THEN NoPlayer ELSE PLAYERS[i]

(***************************************************************************)
(* data/playerMatchStatus.ts                                               *)
(***************************************************************************)

PlayerMatchState == {"pending", "confirmed", "rejected", "timeout", "replaced"}

PlayerNotification(playerId, estado, enviadoEn, respondioEn, tiempoLimite) ==
  [playerId |-> playerId, estado |-> estado, enviadoEn |-> enviadoEn,
   respondioEn |-> respondioEn, tiempoLimite |-> tiempoLimite]

sumarMinutos(instante, minutos) == instante + minutos * 60

crearNotificacionPendiente(playerId, minutos, ahoraMock) ==
  PlayerNotification(playerId, "pending", ahoraMock, -1,
                     sumarMinutos(ahoraMock, minutos))

notificacionVencida_LE(notificacion, ahoraMock) ==
  notificacion.tiempoLimite <= ahoraMock /\ notificacion.estado = "pending"

notificacionVencida_AnyState(notificacion, ahoraMock) ==
  notificacion.tiempoLimite < ahoraMock

notificacionVencida(notificacion, ahoraMock) ==
  notificacion.tiempoLimite < ahoraMock /\ notificacion.estado = "pending"

\* The positions, in array order, of the expired pending records.
obtenerPendientesVencidos(notificaciones, ahoraMock) ==
  SelectSeq([i \in 1..Len(notificaciones) |-> i],
            LAMBDA i : notificacionVencida(notificaciones[i], ahoraMock))

todosConfirmaron_Alguno(notificaciones) ==
  /\ Len(notificaciones) = 4
  /\ \E i \in 1..Len(notificaciones) : notificaciones[i].estado = "confirmed"

todosConfirmaron(notificaciones) ==
  /\ Len(notificaciones) = 4
  /\ \A i \in 1..Len(notificaciones) : notificaciones[i].estado = "confirmed"

contarJugadoresActivos(notificaciones) ==
  Len(SelectSeq(notificaciones,
                LAMBDA n : n.estado = "confirmed" \/ n.estado = "pending"))

(***************************************************************************)
(* data/matches.ts                                                         *)
(***************************************************************************)

MatchStatus == {"waiting", "notified", "confirmed", "canceled", "completed"}

Match(id, jugadores, confirmados, horario, canchaId, estado, categoria, nivelPromedio, creadoEn, motivoCancelacion, notificaciones) ==
  [id |-> id, jugadores |-> jugadores, confirmados |-> confirmados,
   horario |-> horario, canchaId |-> canchaId, estado |-> estado,
   categoria |-> categoria, nivelPromedio |-> nivelPromedio,
   creadoEn |-> creadoEn, motivoCancelacion |-> motivoCancelacion,
   notificaciones |-> notificaciones]

\* The nine matches of the MATCHES literal; e9 gives the estado of the four
\* records of m9 (p7, p8, p6, p10), which the literal sets to
\* pending, confirmed, pending, timeout.
MATCHES_DATA(e9) == <<
  Match("m1", <<"p6", "p7", "p8", "p10">>, <<"p6", "p7", "p8", "p10">>,
        ISO(12, 10, 0), "c1", "confirmed", 5, 5700, ISO(10, 9, 0), "", <<>>),
  Match("m2", <<"p3", "p5">>, <<>>,
        ISO(12, 12, 0), "c2", "waiting", 4, 4450, ISO(10, 10, 0), "", <<>>),
  Match("m3", <<"p10", "p11", "p12">>, <<"p10", "p11">>,
        ISO(12, 14, 0), "c3", "waiting", 6, 6530, ISO(10, 11, 0), "", <<>>),
  Match("m4", <<"p1", "p2", "p3", "p4">>, <<"p1">>,
        ISO(11, 9, 0), "c1", "canceled", 3, 4200, ISO(9, 8, 0),
        "No se alcanzo el minimo de confirmaciones en tiempo", <<>>),
  Match("m5", <<"p6", "p8", "p13", "p14">>, <<"p6", "p8", "p13">>,
        ISO(11, 18, 0), "c4", "canceled", 6, 6350, ISO(9, 15, 0),
        "Jugador p14 cancelo con menos de 2 horas de anticipacion", <<>>),
  Match("m6", <<"p17", "p18", "p15", "p16">>, <<"p17", "p18", "p15", "p16">>,
        ISO(10, 8, 0), "c5", "completed", 7, 7650, ISO(8, 12, 0), "", <<>>),
  Match("m7", <<"p3", "p6">>, <<>>,
        ISO(13, 16, 0), "c2", "waiting", 5, 5350, ISO(10, 14, 0), "", <<>>),
  Match("m8", <<"p13">>, <<>>,
        ISO(14, 10, 0), "c3", "waiting", 6, 6000, ISO(8, 10, 0), "", <<>>),
  Match("m9", <<"p7", "p8", "p6", "p10">>, <<>>,
        ISO(13, 10, 0), "c1", "notified", 5, 5825, ISO(12, 20, 0), "",
        << PlayerNotification("p7", e9[1], ISO(12, 20, 0),
                              -1, ISO(12, 21, 0)),
           PlayerNotification("p8", e9[2], ISO(12, 20, 0),
                              IF e9[2] = "confirmed" THEN ISO(12, 20, 15) ELSE -1,
                              ISO(12, 21, 0)),
           PlayerNotification("p6", e9[3], ISO(12, 20, 0),
                              -1, ISO(12, 21, 0)),
           PlayerNotification("p10", e9[4], ISO(12, 20, 0),
                              -1, ISO(12, 21, 0)) >>) >>

\* Position in ms of the match with this id, 0 when there is none.
getMatchById(ms, id) == Primero({i \in 1..Len(ms) : ms[i].id = id})

getNotifiedMatches(ms) ==
  SelectSeq([i \in 1..Len(ms) |-> i], LAMBDA i : ms[i].estado = "notified")

getMatchesExpirados(ms, horasMaxima, ahoraMock) ==
  SelectSeq([i \in 1..Len(ms) |-> i],
            LAMBDA i : /\ ms[i].estado = "waiting"
                       /\ ahoraMock - ms[i].creadoEn >= horasMaxima * 3600)

(***************************************************************************)
(* Messages handed to the notification channel                             *)
(***************************************************************************)

\* tipo: what is announced; a: the address printed by the source (a phone
\* number, or a player id where the source prints the id).
Mensaje(tipo, a, matchId) == [tipo |-> tipo, a |-> a, matchId |-> matchId]

(***************************************************************************)
(* flows/confirmationFlow.ts                                               *)
(***************************************************************************)

ConfirmationResponse == {"SI", "NO", "TIMEOUT"}

\* partidoCompleto is "true", "false" or "undefined" (the field is optional).
ConfirmationResult(success, matchId, playerId, mensaje, accion, partidoCompleto) ==
  [success |-> success, matchId |-> matchId, playerId |-> playerId,
   mensaje |-> mensaje, accion |-> accion, partidoCompleto |-> partidoCompleto]

simularTimeout(partido, jugadorId) ==
  ConfirmationResult(TRUE, partido.id, jugadorId, "no_confirmo_a_tiempo",
                     "timeout", "false")

simularConfirmarAsistencia_EstadoPrimero(ms, telefonoJugador, matchId, respuesta) ==
  LET jugador == getPlayerByPhone(telefonoJugador)
      mi == getMatchById(ms, matchId)
      partido == ms[mi]
  IN
  IF jugador = NoPlayer
  THEN ConfirmationResult(FALSE, matchId, "", "numero_no_encontrado", "error",
                          "undefined")
  ELSE IF mi = 0
  THEN ConfirmationResult(FALSE, matchId, "", "partido_no_existe", "error",
                          "undefined")
  ELSE IF partido.estado = "canceled" \/ partido.estado = "completed"
  THEN ConfirmationResult(FALSE, matchId, jugador.id, "partido_ya_cerrado",
                          "error", "undefined")
  ELSE IF ~Includes(partido.jugadores, jugador.id)
  THEN ConfirmationResult(FALSE, matchId, jugador.id, "no_estas_en_ese_partido",
                          "error", "undefined")
  ELSE IF Includes(partido.confirmados, jugador.id)
  THEN ConfirmationResult(TRUE, matchId, jugador.id, "ya_confirmaste",
                          "ya_confirmado", "undefined")
  ELSE IF respuesta = "TIMEOUT"
  THEN simularTimeout(partido, jugador.id)
  ELSE IF respuesta = "NO"
  THEN ConfirmationResult(TRUE, matchId, jugador.id, "lugar_cancelado",
                          "rechazado", "undefined")
  ELSE LET confirmadosDespues == Append(partido.confirmados, jugador.id)
           partidoCompleto == Len(confirmadosDespues) = Len(partido.jugadores)
       IN IF partidoCompleto
          THEN ConfirmationResult(TRUE, matchId, jugador.id, "todos_confirmaron",
                                  "confirmado", "true")
          ELSE ConfirmationResult(TRUE, matchId, jugador.id, "faltan_confirmar",
                                  "confirmado", "false")

simularConfirmarAsistencia(ms, telefonoJugador, matchId, respuesta) ==
  LET jugador == getPlayerByPhone(telefonoJugador)
      mi == getMatchById(ms, matchId)
      partido == ms[mi]
  IN
  IF jugador = NoPlayer
  THEN ConfirmationResult(FALSE, matchId, "", "numero_no_encontrado", "error",
                          "undefined")
  ELSE IF mi = 0
  THEN ConfirmationResult(FALSE, matchId, "", "partido_no_existe", "error",
                          "undefined")
  ELSE IF ~Includes(partido.jugadores, jugador.id)
  THEN ConfirmationResult(FALSE, matchId, jugador.id, "no_estas_en_ese_partido",
                          "error", "undefined")
  ELSE IF partido.estado = "canceled" \/ partido.estado = "completed"
  THEN ConfirmationResult(FALSE, matchId, jugador.id, "partido_ya_cerrado",
                          "error", "undefined")
  ELSE IF Includes(partido.confirmados, jugador.id)
  THEN ConfirmationResult(TRUE, matchId, jugador.id, "ya_confirmaste",
                          "ya_confirmado", "undefined")
  ELSE IF respuesta = "TIMEOUT"
  THEN simularTimeout(partido, jugador.id)
  ELSE IF respuesta = "NO"
  THEN ConfirmationResult(TRUE, matchId, jugador.id, "lugar_cancelado",
                          "rechazado", "undefined")
  ELSE LET confirmadosDespues == Append(partido.confirmados, jugador.id)
           partidoCompleto == Len(confirmadosDespues) = Len(partido.jugadores)
       IN IF partidoCompleto
          THEN ConfirmationResult(TRUE, matchId, jugador.id, "todos_confirmaron",
                                  "confirmado", "true")
          ELSE ConfirmationResult(TRUE, matchId, jugador.id, "faltan_confirmar",
                                  "confirmado", "false")

(***************************************************************************)
(* flows/cancellationFlow.ts                                               *)
(***************************************************************************)

CancellationReason ==
  {"jugador_cancela", "sin_confirmaciones", "sin_jugadores_suficientes",
   "cancha_no_disponible", "partido_expirado"}

CancellationResult(success, matchId, playerId, mensaje, tipoMotivo, esUltimoMomento, requiereReemplazo, enviados) ==
  [success |-> success, matchId |-> matchId, playerId |-> playerId,
   mensaje |-> mensaje, tipoMotivo |-> tipoMotivo,
   esUltimoMomento |-> esUltimoMomento,
   requiereReemplazo |-> requiereReemplazo, enviados |-> enviados]

\* The fixed "now" of verificarUltimoMomento, 2025-02-11T16:30:00.
ahoraMockUltimoMomento == ISO(11, 16, 30)

verificarUltimoMomento_Estricto(horarioPartido) ==
  LET diferencia == horarioPartido - ahoraMockUltimoMomento
  IN diferencia >= 0 /\ diferencia < horasUltimoMomento * 3600

verificarUltimoMomento(horarioPartido) ==
  LET diferencia == horarioPartido - ahoraMockUltimoMomento
  IN diferencia >= 0 /\ diferencia <= horasUltimoMomento * 3600

\* Positions in ms of the matches this player is a member of.
getMatchesByPlayer(ms, playerId) ==
  SelectSeq([i \in 1..Len(ms) |-> i], LAMBDA i : Includes(ms[i].jugadores, playerId))

puedeRecuperarse_Mayor(jugadoresRestantes) ==
  jugadoresRestantes > jugadoresMinimosParaCrear

\* PASO 4 of simularCancelarJugador: enough players remain to look for a
\* replacement.
puedeRecuperarse(jugadoresRestantes) ==
  jugadoresRestantes >= jugadoresMinimosParaCrear

\* matchId "" stands for null. Changes no match: the removal of the player is
\* left as a comment in the source.
simularCancelarJugador(ms, telefonoJugador, matchId) ==
  LET jugador == getPlayerByPhone(telefonoJugador)
      partidos == SelectSeq(getMatchesByPlayer(ms, jugador.id),
                    LAMBDA i : ms[i].estado = "waiting" \/ ms[i].estado = "confirmed")
      \* sort by horario (stable) and take the first
      masProximo ==
        Primero({partidos[k] : k \in
                   {k \in 1..Len(partidos) :
                      \A j \in 1..Len(partidos) :
                        ms[partidos[k]].horario <= ms[partidos[j]].horario}})
      mi == IF matchId # "" THEN getMatchById(ms, matchId) ELSE masProximo
      partido == ms[mi]
      esUltimoMomento == verificarUltimoMomento(partido.horario)
      jugadoresRestantes == Len(partido.jugadores) - 1
      requiereReemplazo == puedeRecuperarse(jugadoresRestantes)
  IN
  IF jugador = NoPlayer
  THEN CancellationResult(FALSE, IF matchId # "" THEN matchId ELSE "desconocido",
                          "", "numero_no_encontrado", "error", FALSE, FALSE, <<>>)
  ELSE IF mi = 0
  THEN CancellationResult(FALSE, IF matchId # "" THEN matchId ELSE "ninguno",
                          "", "sin_partidos_activos", "error", FALSE, FALSE, <<>>)
  ELSE IF partido.estado = "canceled" \/ partido.estado = "completed"
  THEN CancellationResult(FALSE, partido.id, jugador.id, "partido_ya_cerrado",
                          "error", FALSE, FALSE, <<>>)
  ELSE IF esUltimoMomento
  THEN CancellationResult(TRUE, partido.id, jugador.id,
                          "cancelaste_a_ultimo_momento", "jugador_cancela",
                          TRUE, requiereReemplazo, <<>>)
  ELSE CancellationResult(TRUE, partido.id, jugador.id,
                          "cancelacion_confirmada", "jugador_cancela",
                          FALSE, requiereReemplazo, <<>>)

\* Changes no match: the state update is left as a comment in the source.
simularCancelarPartidoAutomatico(ms, matchId, motivo) ==
  LET mi == getMatchById(ms, matchId)
      partido == ms[mi]
  IN
  IF mi = 0
  THEN CancellationResult(FALSE, matchId, "", "partido_no_encontrado", "error",
                          FALSE, FALSE, <<>>)
  ELSE CancellationResult(TRUE, matchId, "", motivo, motivo,
         verificarUltimoMomento(partido.horario), FALSE,
         IF notificarCancelacion
         THEN [i \in 1..Len(partido.jugadores) |->
                 Mensaje("cancelacion", partido.jugadores[i], matchId)]
         ELSE <<>>)

(***************************************************************************)
(* flows/replacementFlow.ts                                                *)
(***************************************************************************)

ReplacementResult(success, matchId, reemplazadoId, reemplazanteId, mensaje, intento, accion, enviados) ==
  [success |-> success, matchId |-> matchId, reemplazadoId |-> reemplazadoId,
   reemplazanteId |-> reemplazanteId, mensaje |-> mensaje, intento |-> intento,
   accion |-> accion, enviados |-> enviados]

buscarCandidatos_NoDisponibles(partido, jugadorReemplazadoId, extendida) ==
  LET tolerancia == IF extendida THEN toleranciaExtendida ELSE toleranciaDefault
  IN SelectSeq(PLAYERS,
       LAMBDA p :
         /\ ~Includes(partido.jugadores, p.id)
         /\ p.id # jugadorReemplazadoId
         /\ Abs(p.nivelNumerico - partido.nivelPromedio) <= tolerancia)

buscarCandidatos_SinExcluir(partido, jugadorReemplazadoId, extendida) ==
  LET tolerancia == IF extendida THEN toleranciaExtendida ELSE toleranciaDefault
  IN SelectSeq(PLAYERS,
       LAMBDA p :
         /\ p.id # jugadorReemplazadoId
         /\ p.disponible
         /\ Abs(p.nivelNumerico - partido.nivelPromedio) <= tolerancia)

buscarCandidatos(partido, jugadorReemplazadoId, extendida) ==
  LET tolerancia == IF extendida THEN toleranciaExtendida ELSE toleranciaDefault
  IN SelectSeq(PLAYERS,
       LAMBDA p :
         LET yaEnPartido == Includes(partido.jugadores, p.id)
             esReemplazado == p.id = jugadorReemplazadoId
             nivelCompatible ==
               Abs(p.nivelNumerico - partido.nivelPromedio) <= tolerancia
         IN ~yaEnPartido /\ ~esReemplazado /\ p.disponible /\ nivelCompatible)

notificarCandidato(partido, candidato, jugadorReemplazadoId, intento) ==
  ReplacementResult(TRUE, partido.id, jugadorReemplazadoId, candidato.id,
                    "notificando_candidato", intento, "encontrado",
                    <<Mensaje("invitacion_reemplazo", candidato.telefono,
                              partido.id)>>)

superoMaximoIntentos_GE(intento) == intento >= maxIntentosReemplazo

\* PASO 2 of simularBuscarReemplazo: the attempt cap.
superoMaximoIntentos(intento) == intento > maxIntentosReemplazo

escalaTolerancia_Intento3(intento) == intento = 3

\* The attempt on which an empty default-tolerance search is retried with the
\* extended tolerance.
escalaTolerancia(intento) == intento = 2

partidoCerradoParaReemplazo_SoloCanceled(partido) == partido.estado = "canceled"

\* PASO 1 of simularBuscarReemplazo: the match needs no replacement any more.
partidoCerradoParaReemplazo(partido) ==
  partido.estado = "canceled" \/ partido.estado = "completed"

\* Changes no match, also when it answers partido_cancelado.
simularBuscarReemplazo(ms, matchId, jugadorReemplazadoId, intento) ==
  LET mi == getMatchById(ms, matchId)
      partido == ms[mi]
      candidatos == buscarCandidatos(partido, jugadorReemplazadoId, FALSE)
      candidatosExtendidos == buscarCandidatos(partido, jugadorReemplazadoId, TRUE)
  IN
  IF mi = 0
  THEN ReplacementResult(FALSE, matchId, "", "", "partido_no_existe", intento,
                         "error", <<>>)
  ELSE IF partidoCerradoParaReemplazo(partido)
  THEN ReplacementResult(FALSE, matchId, "", "", "partido_ya_cerrado", intento,
                         "error", <<>>)
  ELSE IF superoMaximoIntentos(intento)
  THEN ReplacementResult(FALSE, matchId, jugadorReemplazadoId, "",
                         "intentos_agotados_partido_cancelado", intento,
                         "partido_cancelado", <<>>)
  ELSE IF Len(candidatos) = 0
  THEN IF escalaTolerancia(intento)
       THEN IF Len(candidatosExtendidos) = 0
            THEN ReplacementResult(FALSE, matchId, jugadorReemplazadoId, "",
                                   "sin_candidatos_tolerancia_extendida",
                                   intento, "no_encontrado", <<>>)
            ELSE notificarCandidato(partido, candidatosExtendidos[1],
                                    jugadorReemplazadoId, intento)
       ELSE ReplacementResult(FALSE, matchId, jugadorReemplazadoId, "",
                              "sin_candidatos_reintentando", intento,
                              "no_encontrado", <<>>)
  ELSE notificarCandidato(partido, candidatos[1], jugadorReemplazadoId, intento)

siguienteIntento_Mismo(intentoActual) == intentoActual

\* The attempt the resolver is re-invoked with after a candidate declines.
siguienteIntento(intentoActual) == intentoActual + 1

\* Changes no match, also when the candidate accepts: the swap of the player
\* list is left as a comment in the source.
simularRespuestaCandidato(ms, matchId, candidatoId, jugadorReemplazadoId, acepto, intentoActual) ==
  LET mi == getMatchById(ms, matchId)
      candidato == getPlayerById(candidatoId)
  IN
  IF mi = 0 \/ candidato = NoPlayer
  THEN ReplacementResult(FALSE, matchId, "", "", "datos_invalidos",
                         intentoActual, "error", <<>>)
  ELSE IF acepto
  THEN ReplacementResult(TRUE, matchId, jugadorReemplazadoId, candidatoId,
                         "acepto_sumarse", intentoActual, "encontrado", <<>>)
  ELSE simularBuscarReemplazo(ms, matchId, jugadorReemplazadoId,
                              siguienteIntento(intentoActual))

(***************************************************************************)
(* triggers/confirmationTimeoutTrigger.ts                                  *)
(***************************************************************************)

PartidoCheckResult(matchId, accion, timeouts) ==
  [matchId |-> matchId, accion |-> accion, timeouts |-> timeouts]

marcarPartidoComoConfirmado_SinEstado(partido) ==
  [partido EXCEPT !.confirmados = partido.jugadores]

marcarPartidoComoConfirmado(partido) ==
  [partido EXCEPT !.estado = "confirmed", !.confirmados = partido.jugadores]

\* One message per member that getPlayerById finds.
notificarPartidoConfirmado(partido) ==
  LET conocidos == SelectSeq(partido.jugadores,
                             LAMBDA id : getPlayerById(id) # NoPlayer)
  IN [k \in 1..Len(conocidos) |->
        Mensaje("partido_confirmado", getPlayerById(conocidos[k]).telefono,
                partido.id)]

\* The searches of the loop "for (const notif of vencidos)", which returns at
\* the first partido_cancelado.
RECURSIVE buscarReemplazos(_, _, _)
buscarReemplazos(ms, matchId, playerIds) ==
  IF playerIds = <<>> THEN <<>>
  ELSE LET resultado == simularBuscarReemplazo(ms, matchId, Head(playerIds), 1)
       IN IF resultado.accion = "partido_cancelado"
          THEN <<resultado>>
          ELSE <<resultado>> \o buscarReemplazos(ms, matchId, Tail(playerIds))

\* What processing one match yields: the collection afterwards, the per-match
\* result, the messages sent, the replacement searches made and the
\* cancellations requested.
Procesado(ms, resultado, enviados, busquedas, cancelaciones) ==
  [ms |-> ms, resultado |-> resultado, enviados |-> enviados,
   busquedas |-> busquedas, cancelaciones |-> cancelaciones]

procesarPartido(ms, i, ahora) ==
  LET partido == ms[i]
      notificaciones == partido.notificaciones
      vencidos == obtenerPendientesVencidos(notificaciones, ahora)
      \* notif.estado = "timeout"; notif.respondioEn = ahora
      marcadas == [k \in 1..Len(notificaciones) |->
                     IF Includes(vencidos, k)
                     THEN [notificaciones[k] EXCEPT !.estado = "timeout",
                                                    !.respondioEn = ahora]
                     ELSE notificaciones[k]]
      msTimeout == [ms EXCEPT ![i].notificaciones = marcadas]
      activosRestantes == contarJugadoresActivos(marcadas)
      cancelacion ==
        simularCancelarPartidoAutomatico(msTimeout, partido.id, "sin_confirmaciones")
      busquedas ==
        buscarReemplazos(msTimeout, partido.id,
                         [k \in 1..Len(vencidos) |-> notificaciones[vencidos[k]].playerId])
      enviadosBusquedas ==
        FlatSeq([k \in 1..Len(busquedas) |-> busquedas[k].enviados])
  IN
  IF Len(notificaciones) = 0
  THEN Procesado(ms, PartidoCheckResult(partido.id, "error", 0), <<>>, <<>>, <<>>)
  ELSE IF todosConfirmaron(notificaciones)
  THEN Procesado([ms EXCEPT ![i] = marcarPartidoComoConfirmado(partido)],
                 PartidoCheckResult(partido.id, "partido_confirmado", 0),
                 notificarPartidoConfirmado(marcarPartidoComoConfirmado(partido)),
                 <<>>, <<>>)
  ELSE IF Len(vencidos) = 0
  THEN Procesado(ms, PartidoCheckResult(partido.id, "sin_cambios", 0),
                 <<>>, <<>>, <<>>)
  ELSE IF activosRestantes < jugadoresMinimosParaCrear
  THEN Procesado(msTimeout,
                 PartidoCheckResult(partido.id, "partido_cancelado", Len(vencidos)),
                 cancelacion.enviados, <<>>, <<cancelacion>>)
  ELSE IF busquedas[Len(busquedas)].accion = "partido_cancelado"
  THEN Procesado(msTimeout,
                 PartidoCheckResult(partido.id, "partido_cancelado", Len(vencidos)),
                 enviadosBusquedas, busquedas, <<>>)
  ELSE Procesado(msTimeout,
                 PartidoCheckResult(partido.id,
                   IF Len(vencidos) > 0 THEN "reemplazo_iniciado"
                                        ELSE "timeout_procesado",
                   Len(vencidos)),
                 enviadosBusquedas, busquedas, <<>>)

CheckResult(ms, ejecutadoEn, resultados, enviados, busquedas, cancelaciones) ==
  LET Cuenta(accion) == Len(SelectSeq(resultados, LAMBDA r : r.accion = accion))
      conTimeouts == SelectSeq(resultados,
                       LAMBDA r : r.accion = "timeout_procesado"
                                  \/ r.accion = "reemplazo_iniciado")
  IN [ms |-> ms, ejecutadoEn |-> ejecutadoEn,
      partidosRevisados |-> Len(resultados),
      partidosConfirmados |-> Cuenta("partido_confirmado"),
      partidosCancelados |-> Cuenta("partido_cancelado"),
      timeoutsDetectados |->
        SumSeq([k \in 1..Len(conTimeouts) |-> conTimeouts[k].timeouts]),
      reemplazosIniciados |-> Cuenta("reemplazo_iniciado"),
      resultados |-> resultados, enviados |-> enviados,
      busquedas |-> busquedas, cancelaciones |-> cancelaciones]

\* The loop "for (const partido of partidosNotificados)": pendientes are the
\* positions still to process, acc the CheckResult so far.
RECURSIVE revisarPartidos(_, _, _)
revisarPartidos(acc, pendientes, ahora) ==
  IF pendientes = <<>> THEN acc
  ELSE LET r == procesarPartido(acc.ms, Head(pendientes), ahora)
       IN revisarPartidos(
            CheckResult(r.ms, ahora, Append(acc.resultados, r.resultado),
                        acc.enviados \o r.enviados,
                        acc.busquedas \o r.busquedas,
                        acc.cancelaciones \o r.cancelaciones),
            Tail(pendientes), ahora)

ejecutarCheckConfirmaciones(ms, ahora) ==
  revisarPartidos(CheckResult(ms, ahora, <<>>, <<>>, <<>>, <<>>),
                  getNotifiedMatches(ms), ahora)

\* Position of the first "notified" match one of whose members has this phone.
encontrarPartidoActivoDelJugador(ms, telefono) ==
  Primero({i \in 1..Len(ms) :
    /\ ms[i].estado = "notified"
    /\ \E k \in 1..Len(ms[i].jugadores) :
         /\ getPlayerById(ms[i].jugadores[k]) # NoPlayer
         /\ getPlayerById(ms[i].jugadores[k]).telefono = telefono})

\* The answer to the player, with what the call did: the collection
\* afterwards, the messages sent and the replacement searches started.
RespuestaResult(ms, matchId, playerId, mensaje, accion, enviados, busquedas) ==
  [ms |-> ms, matchId |-> matchId, playerId |-> playerId, mensaje |-> mensaje,
   accion |-> accion, enviados |-> enviados, busquedas |-> busquedas]

procesarRespuestaJugador(ms, telefonoJugador, respuesta) ==
  LET pa == encontrarPartidoActivoDelJugador(ms, telefonoJugador)
      partidoActivo == ms[pa]
      resultado == simularConfirmarAsistencia(ms, telefonoJugador,
                                              partidoActivo.id, respuesta)
  IN
  IF pa = 0
  THEN RespuestaResult(ms, "", "", "sin_partido_pendiente", "sin_partido",
                       <<>>, <<>>)
  \* respuesta = "NO": the call of simularBuscarReemplazo is commented out
  ELSE IF resultado.partidoCompleto = "true"
  THEN RespuestaResult([ms EXCEPT ![pa] = marcarPartidoComoConfirmado(partidoActivo)],
                       partidoActivo.id, resultado.playerId, resultado.mensaje,
                       resultado.accion,
                       notificarPartidoConfirmado(
                         marcarPartidoComoConfirmado(partidoActivo)),
                       <<>>)
  ELSE RespuestaResult(ms, partidoActivo.id, resultado.playerId,
                       resultado.mensaje, resultado.accion, <<>>, <<>>)

(***************************************************************************)
(* data/courts.ts                                                          *)
(***************************************************************************)

\* horariosDisponibles keeps the "inicio" of each time slot, in minutes after
\* midnight.
Court(id, activa, diasDisponibles, horariosDisponibles) ==
  [id |-> id, activa |-> activa, diasDisponibles |-> diasDisponibles,
   horariosDisponibles |-> horariosDisponibles]

COURTS == <<
  Court("c1", TRUE,
        <<"lunes", "martes", "miercoles", "jueves", "viernes", "sabado">>,
        <<480, 600, 960, 1080, 1200>>),
  Court("c2", TRUE,
        <<"lunes", "miercoles", "viernes", "sabado", "domingo">>,
        <<480, 600, 720, 960, 1080>>),
  Court("c3", TRUE,
        <<"lunes", "martes", "miercoles", "jueves", "viernes", "sabado",
          "domingo">>,
        <<420, 540, 660, 900, 1020, 1140, 1260>>),
  Court("c4", TRUE,
        <<"martes", "jueves", "sabado", "domingo">>,
        <<540, 660, 1020, 1140>>),
  Court("c5", FALSE, <<>>, <<>>) >>

getAvailableCourtsByDay(dia) ==
  SelectSeq(COURTS, LAMBDA c : c.activa /\ Includes(c.diasDisponibles, dia))

(***************************************************************************)
(* flows/createMatchFlow.ts                                                *)
(***************************************************************************)

\* Positions in ms of the waiting matches with fewer than 4 players.
getOpenMatches(ms) ==
  SelectSeq([i \in 1..Len(ms) |-> i],
            LAMBDA i : ms[i].estado = "waiting" /\ Len(ms[i].jugadores) < 4)

\* matchId "" is an absent matchId.
CreateMatchResult(success, matchId, mensaje, estado) ==
  [success |-> success, matchId |-> matchId, mensaje |-> mensaje,
   estado |-> estado]

\* horarioSolicitado is -1 for null, else a full "YYYY-MM-DDTHH:MM:SS"
\* timestamp, which a horario starts with only when it equals it.  The
\* position of the compatible open match with most players, the first of
\* them in partidosAbiertos on a tie; 0 for null.
encontrarPartidoCompatible(ms, jugador, partidosAbiertos, horarioSolicitado) ==
  LET compatibles ==
        SelectSeq(partidosAbiertos,
          LAMBDA i :
            /\ Abs(ms[i].nivelPromedio - jugador.nivelNumerico)
                 <= toleranciaDefault
            /\ horarioSolicitado # -1 => ms[i].horario = horarioSolicitado)
      ordenados ==
        SortByKey(compatibles,
                  [k \in 1..Len(compatibles) |->
                     0 - Len(ms[compatibles[k]].jugadores)])
  IN IF Len(compatibles) = 0 THEN 0 ELSE ordenados[1]

\* Position in COURTS of the first active court, 0 for null.
buscarCanchaDisponible(horario) ==
  Primero({c \in 1..Len(COURTS) : COURTS[c].activa})

\* Changes no match: the join and the insert are left as comments in the
\* source.
simularAnotarseAPartido(ms, telefonoJugador, horarioSolicitado) ==
  LET jugador == getPlayerByPhone(telefonoJugador)
      partidosAbiertos == getOpenMatches(ms)
      pc == encontrarPartidoCompatible(ms, jugador, partidosAbiertos,
                                       horarioSolicitado)
      lugaresRestantes == 4 - Len(ms[pc].jugadores)
      nuevaCancha == buscarCanchaDisponible(horarioSolicitado)
  IN
  IF jugador = NoPlayer
  THEN CreateMatchResult(FALSE, "", "numero_no_encontrado", "error")
  ELSE IF ~jugador.disponible
  THEN CreateMatchResult(FALSE, "", "cuenta_no_disponible", "error")
  ELSE IF pc # 0
  THEN IF lugaresRestantes > 1
       THEN CreateMatchResult(TRUE, ms[pc].id, "te_anotamos", "unido")
       ELSE CreateMatchResult(TRUE, ms[pc].id, "partido_completo", "completo")
  ELSE IF nuevaCancha = 0
  THEN CreateMatchResult(FALSE, "", "sin_canchas", "error")
  ELSE CreateMatchResult(TRUE, "m" \o ToString(Len(ms) + 1),
                         "creamos_un_partido", "creado")

(***************************************************************************)
(* triggers/dailyMatchTrigger.ts                                           *)
(***************************************************************************)

\* fecha is the day of February 2025 of a "YYYY-MM-DD" date.
calcularManana(instante) == 8 + (instante \div 86400) + 1

\* 2025-02-09 is a Sunday.
calcularDiaSemana(fecha) ==
  << "domingo", "lunes", "martes", "miercoles", "jueves", "viernes",
     "sabado" >>[((fecha + 5) % 7) + 1]

obtenerJugadoresElegibles_SinOcupados(ms) ==
  SelectSeq(PLAYERS, LAMBDA p : p.disponible)

obtenerJugadoresElegibles(ms) ==
  LET activos == SelectSeq(ms, LAMBDA m : m.estado = "waiting"
                                          \/ m.estado = "notified"
                                          \/ m.estado = "confirmed")
      jugadoresOcupados ==
        Range(FlatSeq([k \in 1..Len(activos) |-> activos[k].jugadores]))
  IN SelectSeq(PLAYERS, LAMBDA p : p.disponible /\ p.id \notin jugadoresOcupados)

balancearGrupo_SinIntercambio(grupo) ==
  SortByKey(grupo, [k \in 1..Len(grupo) |-> grupo[k].nivelNumerico])

balancearGrupo(grupo) ==
  LET ordenado == SortByKey(grupo,
                   [k \in 1..Len(grupo) |-> grupo[k].nivelNumerico])
  IN <<ordenado[1], ordenado[3], ordenado[2], ordenado[4]>>

nivelCompatible_SinAbs(p, ancla, tolerancia) ==
  p.nivelNumerico - ancla.nivelNumerico <= tolerancia

\* The level test of the two filters over the pool.
nivelCompatible(p, ancla, tolerancia) ==
  Abs(p.nivelNumerico - ancla.nivelNumerico) <= tolerancia

marcarUsados_SoloPrimero(usados, grupoFinal) == usados \cup {grupoFinal[1].id}

\* grupoFinal.forEach((p) => usados.add(p.id))
marcarUsados(usados, grupoFinal) ==
  usados \cup {grupoFinal[k].id : k \in 1..Len(grupoFinal)}

\* The body of the loop over the anchors pool[i]: usados and grupos are the
\* loop's variables. formados remembers, for each group in the order of
\* grupos, its anchor, the ids that were used when it was formed and the
\* group before its pairs are balanced; omitidos
\* remembers the anchors passed over for want of 3 candidates.
RECURSIVE agruparDesde(_, _, _, _)
agruparDesde(pool, i, usados, grupos) ==
  IF i > Len(pool)
  THEN [grupos |-> grupos, usados |-> usados, formados |-> <<>>,
        omitidos |-> {}]
  ELSE
    LET ancla == pool[i]
        Cerca(tolerancia) ==
          SelectSeq(pool,
            LAMBDA p : /\ p.id \notin usados
                       /\ p.id # ancla.id
                       /\ nivelCompatible(p, ancla, tolerancia))
        candidatos == IF Len(Cerca(toleranciaDefault)) < 3
                      THEN Cerca(toleranciaExtendida)
                      ELSE Cerca(toleranciaDefault)
        tresmas ==
          SubSeq(SortByKey(candidatos,
                   [k \in 1..Len(candidatos) |->
                      Abs(candidatos[k].nivelNumerico - ancla.nivelNumerico)]),
                 1, 3)
        grupo == <<ancla>> \o tresmas
        grupoFinal == IF balancearParejas THEN balancearGrupo(grupo) ELSE grupo
        resto == agruparDesde(pool, i + 1, marcarUsados(usados, grupoFinal),
                              Append(grupos, grupoFinal))
    IN IF ancla.id \in usados THEN agruparDesde(pool, i + 1, usados, grupos)
       ELSE IF Len(candidatos) < 3
       THEN [agruparDesde(pool, i + 1, usados, grupos) EXCEPT
               !.omitidos = {ancla.id} \cup @]
       ELSE [resto EXCEPT
               !.formados = <<[ancla |-> ancla, usadosAntes |-> usados,
                               grupo |-> grupo]>> \o @]

agruparJugadoresPorNivel_SinSobrantes(jugadores) ==
  LET pool == SortByKey(jugadores,
               [k \in 1..Len(jugadores) |-> jugadores[k].nivelNumerico])
      r == agruparDesde(pool, 1, {}, <<>>)
  IN [grupos |-> r.grupos, sinGrupo |-> <<>>]

agruparJugadoresPorNivel(jugadores) ==
  LET pool == SortByKey(jugadores,
               [k \in 1..Len(jugadores) |-> jugadores[k].nivelNumerico])
      r == agruparDesde(pool, 1, {}, <<>>)
  IN [grupos |-> r.grupos,
      sinGrupo |-> SelectSeq(pool, LAMBDA p : p.id \notin r.usados)]

SlotDisponible(canchaId, horario) == [canchaId |-> canchaId, horario |-> horario]

generarPoolDeSlots_CanchasPrimero(canchas, fechaObjetivo) ==
  FlatSeq([c \in 1..Len(canchas) |->
    LET deCancha == SelectSeq(slots,
                      LAMBDA s : Includes(canchas[c].horariosDisponibles, s))
    IN [s \in 1..Len(deCancha) |->
          SlotDisponible(canchas[c].id, ISO(fechaObjetivo, 0, deCancha[s]))]])

\* Slots outer, courts inner; a pair only where the court offers the slot.
generarPoolDeSlots(canchas, fechaObjetivo) ==
  FlatSeq([s \in 1..Len(slots) |->
    LET conSlot == SelectSeq(canchas,
                     LAMBDA c : Includes(c.horariosDisponibles, slots[s]))
    IN [c \in 1..Len(conSlot) |->
          SlotDisponible(conSlot[c].id, ISO(fechaObjetivo, 0, slots[s]))]])

MatchProposal(jugadores, horario, canchaId, nivelPromedio, categoria) ==
  [jugadores |-> jugadores, horario |-> horario, canchaId |-> canchaId,
   nivelPromedio |-> nivelPromedio, categoria |-> categoria]

\* Math.round(x / d) for x >= 0: halves go up.
RoundDiv(x, d) == (2 * x + d) \div (2 * d)

\* The proposal of one group on one slot: nivelPromedio is the mean rounded to
\* two decimals, categoria the mean rounded to an integer.
proponer(grupo, slot) ==
  LET suma == SumSeq([k \in 1..Len(grupo) |-> grupo[k].nivelNumerico])
  IN MatchProposal(grupo, slot.horario, slot.canchaId,
                   RoundDiv(suma, Len(grupo) * 10) * 10,
                   RoundDiv(suma, Len(grupo) * 1000))

crearPartidoNotificado_SinUltimoRegistro(ms, proposal, ahoraMock) ==
  Append(ms,
    Match("m" \o ToString(Len(ms) + 1),
          [k \in 1..Len(proposal.jugadores) |-> proposal.jugadores[k].id],
          <<>>, proposal.horario, proposal.canchaId, "notified",
          proposal.categoria, proposal.nivelPromedio, ahoraMock, "",
          [k \in 1..(Len(proposal.jugadores) - 1) |->
             crearNotificacionPendiente(proposal.jugadores[k].id,
                                        minutosParaConfirmar, ahoraMock)]))

\* The collection after MATCHES.push(nuevoPartido).
crearPartidoNotificado(ms, proposal, ahoraMock) ==
  Append(ms,
    Match("m" \o ToString(Len(ms) + 1),
          [k \in 1..Len(proposal.jugadores) |-> proposal.jugadores[k].id],
          <<>>, proposal.horario, proposal.canchaId, "notified",
          proposal.categoria, proposal.nivelPromedio, ahoraMock, "",
          [k \in 1..Len(proposal.jugadores) |->
             crearNotificacionPendiente(proposal.jugadores[k].id,
                                        minutosParaConfirmar, ahoraMock)]))

simularEnviarPrimerMensajeGrupo(proposal, matchId) ==
  [k \in 1..Len(proposal.jugadores) |->
     Mensaje("partido_listo", proposal.jugadores[k].telefono, matchId)]

TriggerResult(ms, fechaObjetivo, ejecutadoEn, partidosCreados, jugadoresAgrupados, jugadoresSinPartido, partidosExpiradosCancelados, errores, proposals, enviados, cancelaciones) ==
  [ms |-> ms, fechaObjetivo |-> fechaObjetivo, ejecutadoEn |-> ejecutadoEn,
   partidosCreados |-> partidosCreados,
   jugadoresAgrupados |-> jugadoresAgrupados,
   jugadoresSinPartido |-> jugadoresSinPartido,
   partidosExpiradosCancelados |-> partidosExpiradosCancelados,
   errores |-> errores, proposals |-> proposals, enviados |-> enviados,
   cancelaciones |-> cancelaciones]

\* PASO 6: the loop "for (const proposal of proposals)"; acc keeps the
\* collection and the messages so far.
RECURSIVE crearPartidos(_, _, _)
crearPartidos(acc, proposals, ahora) ==
  IF proposals = <<>> THEN acc
  ELSE LET nuevos == crearPartidoNotificado(acc.ms, Head(proposals), ahora)
       IN crearPartidos(
            [ms |-> nuevos,
             enviados |-> acc.enviados \o
               simularEnviarPrimerMensajeGrupo(Head(proposals),
                                               nuevos[Len(nuevos)].id)],
            Tail(proposals), ahora)

gruposAsignados_Ninguno(grupos, slotsDisponibles) ==
  IF Len(grupos) <= Len(slotsDisponibles) THEN Len(grupos) ELSE 0

\* PASO 5: how many groups the loop "for (const grupo of grupos)" gives a slot
\* before it ends or breaks on "slotIndex >= slotsDisponibles.length".
gruposAsignados(grupos, slotsDisponibles) ==
  IF Len(grupos) <= Len(slotsDisponibles) THEN Len(grupos)
  ELSE Len(slotsDisponibles)

\* fechaObjetivoMock = 0 stands for an omitted argument.
ejecutarTriggerDiario(ms, fechaObjetivoMock, ahora) ==
  LET fechaObjetivo == IF fechaObjetivoMock = 0 THEN calcularManana(ahora)
                       ELSE fechaObjetivoMock
      expirados == getMatchesExpirados(ms, horasMaximaEsperaPartido, ahora)
      cancelaciones ==
        [k \in 1..Len(expirados) |->
           simularCancelarPartidoAutomatico(ms, ms[expirados[k]].id,
                                            "partido_expirado")]
      avisos == FlatSeq([k \in 1..Len(cancelaciones) |-> cancelaciones[k].enviados])
      jugadoresElegibles == obtenerJugadoresElegibles(ms)
      ids(js) == [k \in 1..Len(js) |-> js[k].id]
      agrupados == agruparJugadoresPorNivel(jugadoresElegibles)
      canchasDisponibles == getAvailableCourtsByDay(calcularDiaSemana(fechaObjetivo))
      slotsDisponibles == generarPoolDeSlots(canchasDisponibles, fechaObjetivo)
      asignados == gruposAsignados(agrupados.grupos, slotsDisponibles)
      proposals == [k \in 1..asignados |->
                      proponer(agrupados.grupos[k], slotsDisponibles[k])]
      creados == crearPartidos([ms |-> ms, enviados |-> <<>>], proposals, ahora)
  IN
  IF Len(jugadoresElegibles) < 4
  THEN TriggerResult(ms, fechaObjetivo, ahora, 0, 0, ids(jugadoresElegibles),
                     Len(expirados), <<"pocos_jugadores_elegibles">>, <<>>,
                     avisos, cancelaciones)
  ELSE IF Len(canchasDisponibles) = 0
  THEN TriggerResult(ms, fechaObjetivo, ahora, 0, 0, ids(jugadoresElegibles),
                     Len(expirados), <<"sin_canchas_disponibles">>, <<>>,
                     avisos, cancelaciones)
  ELSE TriggerResult(creados.ms, fechaObjetivo, ahora, Len(proposals),
                     Len(jugadoresElegibles) - Len(agrupados.sinGrupo),
                     ids(agrupados.sinGrupo), Len(expirados),
                     IF Len(agrupados.grupos) > Len(slotsDisponibles)
                     THEN <<"slots_insuficientes">> ELSE <<>>,
                     proposals, avisos \o creados.enviados, cancelaciones)

(***************************************************************************)
(* Bounds and inputs                                                       *)
(***************************************************************************)

\* The confirmation scan runs within Margen seconds of a confirmation deadline.
Margen == 1

\* Attempt numbers handed to the resolver range over 1..MaxIntento.
MaxIntento == 4

\* The deadline of the records of m9, and of the records of a match the daily
\* trigger creates at InstanteTrigger.
Plazo == ISO(12, 21, 0)

InstantesCheck == {Plazo + d : d \in (0 - Margen)..Margen}

InstanteTrigger == ISO(12, 20, 0)

\* Target dates of the daily trigger: omitted (0) and Sunday 16.
Fechas == {0, 16}

\* The phones of the members of m9 (p7, p8, p6, p10), the one p4 shares with
\* p14, and one that belongs to nobody.
Telefonos ==
  {"5491188990011", "5491199001122", "5491177889900", "5491111223344",
   "5491155667788", "5490000000000"}

\* The replacement asked of the resolver directly, that of CASO 1 to CASO 3 of
\* replacementFlow; the members of notified matches are handed to it by the
\* confirmation scan.
ReemplazosPedidos == {[matchId |-> "m3", jugadorReemplazadoId |-> "p12"]}

\* The estado of the four records of m9: the literal of data/matches.ts, the
\* set-ups CASO 3 (all confirmed) and CASO 4 (all pending) of the trigger's
\* test cases, and one holding the two remaining states.
EscenariosM9 ==
  { <<"pending", "confirmed", "pending", "timeout">>,
    <<"confirmed", "confirmed", "confirmed", "confirmed">>,
    <<"pending", "pending", "pending", "pending">>,
    <<"rejected", "confirmed", "pending", "replaced">> }

\* Players switched to disponible = false on top of the literal: nobody, the
\* default-tolerance candidates of m3 (CASO 2 of replacementFlow), everybody.
PerfilesNoDisponibles ==
  { {}, {"p6", "p13", "p16"},
    {PLAYERS_DATA[i].id : i \in 1..Len(PLAYERS_DATA)} }

(***************************************************************************)
(* State                                                                   *)
(*  PLAYERS, MATCHES: the two mutable collections.                         *)
(*  ultima: the last operation called, its arguments and what it returned  *)
(*    and sent.                                                            *)
(*  respondieronSI: the <<match id, player id>> whose SI was answered      *)
(*    "confirmado" while the player's record was pending.                  *)
(***************************************************************************)

\* A result without the collection it was computed on.
SinMs(r) == [f \in DOMAIN r \ {"ms"} |-> r[f]]

Operacion(op, args, res) == [op |-> op, args |-> args, res |-> res]

Init ==
  /\ \E nd \in PerfilesNoDisponibles, e9 \in EscenariosM9 :
       /\ nd = {} \/ e9 = <<"pending", "confirmed", "pending", "timeout">>
       /\ PLAYERS = [i \in 1..Len(PLAYERS_DATA) |->
                       IF PLAYERS_DATA[i].id \in nd
                       THEN [PLAYERS_DATA[i] EXCEPT !.disponible = FALSE]
                       ELSE PLAYERS_DATA[i]]
       /\ MATCHES = MATCHES_DATA(e9)
  /\ ultima = Operacion("ninguna", [ninguno |-> TRUE], [ninguno |-> TRUE])
  /\ respondieronSI = {}

\* The record of this player in this match, or a record of estado "" when the
\* match has none.
RegistroDe(partido, playerId) ==
  LET k == Primero({k \in 1..Len(partido.notificaciones) :
                       partido.notificaciones[k].playerId = playerId})
  IN IF k = 0 THEN PlayerNotification("", "", -1, -1, -1)
     ELSE partido.notificaciones[k]

CheckConfirmaciones ==
  \E ahora \in InstantesCheck :
    LET r == ejecutarCheckConfirmaciones(MATCHES, ahora)
    IN /\ MATCHES' = r.ms
       /\ ultima' = Operacion("ejecutarCheckConfirmaciones",
                              [ahora |-> ahora], SinMs(r))
       /\ UNCHANGED <<PLAYERS, respondieronSI>>

RespuestaJugador ==
  \E telefono \in Telefonos, respuesta \in {"SI", "NO"} :
    LET r == procesarRespuestaJugador(MATCHES, telefono, respuesta)
        mi == getMatchById(MATCHES, r.matchId)
    IN /\ MATCHES' = r.ms
       /\ ultima' = Operacion("procesarRespuestaJugador",
                              [telefono |-> telefono, respuesta |-> respuesta],
                              SinMs(r))
       /\ respondieronSI' =
            IF /\ respuesta = "SI" /\ r.accion = "confirmado" /\ mi # 0
               /\ RegistroDe(MATCHES[mi], r.playerId).estado = "pending"
            THEN respondieronSI \cup {<<r.matchId, r.playerId>>}
            ELSE respondieronSI
       /\ UNCHANGED PLAYERS

BuscarReemplazo ==
  \E pedido \in ReemplazosPedidos, intento \in 1..MaxIntento :
    LET r == simularBuscarReemplazo(MATCHES, pedido.matchId,
                                    pedido.jugadorReemplazadoId, intento)
    IN /\ ultima' = Operacion("simularBuscarReemplazo",
                              [matchId |-> pedido.matchId,
                               jugadorReemplazadoId |-> pedido.jugadorReemplazadoId,
                               intento |-> intento], r)
       /\ UNCHANGED <<PLAYERS, MATCHES, respondieronSI>>

TriggerDiario ==
  \E fecha \in Fechas :
    LET r == ejecutarTriggerDiario(MATCHES, fecha, InstanteTrigger)
    IN /\ MATCHES' = r.ms
       /\ ultima' = Operacion("ejecutarTriggerDiario",
                              [fechaObjetivoMock |-> fecha,
                               ahoraMock |-> InstanteTrigger],
                              SinMs(r))
       /\ UNCHANGED <<PLAYERS, respondieronSI>>

Next ==
  \/ CheckConfirmaciones
  \/ RespuestaJugador
  \/ BuscarReemplazo
  \/ TriggerDiario

Spec == Init /\ [][Next]_vars

(***************************************************************************)
(* The replacement and cancellation flows, called as their test cases call *)
(* them, between runs of the confirmation scan                             *)
(***************************************************************************)

\* A scheduled time lies within MargenVentana seconds of an edge of the
\* last-minute window.
MargenVentana == 2

\* CASO 1 to CASO 3 (m3, waiting) and CASO 6 (m4, canceled) of replacementFlow,
\* the completed m6, the notified m9 and a match that does not exist.
ReemplazosDePrueba ==
  { [matchId |-> "m3", jugadorReemplazadoId |-> "p12"],
    [matchId |-> "m4", jugadorReemplazadoId |-> "p2"],
    [matchId |-> "m6", jugadorReemplazadoId |-> "p15"],
    [matchId |-> "m9", jugadorReemplazadoId |-> "p10"],
    [matchId |-> "m99", jugadorReemplazadoId |-> "p1"] }

\* The proposal the last call made, if it made one and it was not accepted:
\* what the proposed candidate answers to.
PropuestaPendiente ==
  IF /\ ultima.op \in {"simularBuscarReemplazo", "simularRespuestaCandidato"}
     /\ ultima.res.accion = "encontrado"
     /\ ~(ultima.op = "simularRespuestaCandidato" /\ ultima.args.acepto)
  THEN { [matchId |-> ultima.res.matchId,
          candidatoId |-> ultima.res.reemplazanteId,
          jugadorReemplazadoId |-> ultima.res.reemplazadoId,
          intentoActual |-> ultima.res.intento] }
  ELSE {}

\* CASO 4 and CASO 5 of replacementFlow at every attempt, a candidate that
\* does not exist, and an answer about the canceled m4.
RespuestasDePrueba ==
  { [matchId |-> "m3", candidatoId |-> "p13", jugadorReemplazadoId |-> "p12",
     intentoActual |-> n] : n \in 1..MaxIntento }
  \cup
  { [matchId |-> "m3", candidatoId |-> "p99", jugadorReemplazadoId |-> "p12",
     intentoActual |-> 1],
    [matchId |-> "m4", candidatoId |-> "p13", jugadorReemplazadoId |-> "p2",
     intentoActual |-> 1] }

\* The phones of CASO 1 (p6), CASO 2 (p4) and CASO 3 (p7) of cancellationFlow
\* and one that belongs to nobody.
TelefonosCancelacion ==
  {"5491177889900", "5491155667788", "5491188990011", "5490000000000"}

\* "" is null: the player's next active match is looked up.
PartidosCancelacion == {"", "m1", "m2", "m4", "m5", "m6", "m8", "m9"}

\* CASO 4 (m8) and CASO 5 (m4) of cancellationFlow, the completed m6, the
\* waiting m2, the notified m9 and a match that does not exist.
PartidosAutomaticos == {"m8", "m4", "m6", "m2", "m9", "m99"}

HorariosPartido ==
  {ahoraMockUltimoMomento + d : d \in (0 - MargenVentana)..MargenVentana}
  \cup
  {ahoraMockUltimoMomento + horasUltimoMomento * 3600 + d :
     d \in (0 - MargenVentana)..MargenVentana}

BuscarReemplazoDePrueba ==
  \E pedido \in ReemplazosDePrueba, intento \in 1..MaxIntento :
    LET r == simularBuscarReemplazo(MATCHES, pedido.matchId,
                                    pedido.jugadorReemplazadoId, intento)
    IN /\ ultima' = Operacion("simularBuscarReemplazo",
                              [matchId |-> pedido.matchId,
                               jugadorReemplazadoId |-> pedido.jugadorReemplazadoId,
                               intento |-> intento], r)
       /\ UNCHANGED <<PLAYERS, MATCHES, respondieronSI>>

RespuestaCandidato ==
  \E c \in PropuestaPendiente \cup RespuestasDePrueba, acepto \in BOOLEAN :
    LET r == simularRespuestaCandidato(MATCHES, c.matchId, c.candidatoId,
                                       c.jugadorReemplazadoId, acepto,
                                       c.intentoActual)
    IN /\ ultima' = Operacion("simularRespuestaCandidato",
                              [matchId |-> c.matchId,
                               candidatoId |-> c.candidatoId,
                               jugadorReemplazadoId |-> c.jugadorReemplazadoId,
                               acepto |-> acepto,
                               intentoActual |-> c.intentoActual], r)
       /\ UNCHANGED <<PLAYERS, MATCHES, respondieronSI>>

CancelarJugador ==
  \E telefono \in TelefonosCancelacion, matchId \in PartidosCancelacion :
    LET r == simularCancelarJugador(MATCHES, telefono, matchId)
    IN /\ ultima' = Operacion("simularCancelarJugador",
                              [telefonoJugador |-> telefono, matchId |-> matchId],
                              r)
       /\ UNCHANGED <<PLAYERS, MATCHES, respondieronSI>>

CancelarPartidoAutomatico ==
  \E matchId \in PartidosAutomaticos, motivo \in CancellationReason :
    LET r == simularCancelarPartidoAutomatico(MATCHES, matchId, motivo)
    IN /\ ultima' = Operacion("simularCancelarPartidoAutomatico",
                              [matchId |-> matchId, motivo |-> motivo], r)
       /\ UNCHANGED <<PLAYERS, MATCHES, respondieronSI>>

VerificarUltimoMomento ==
  \E horarioPartido \in HorariosPartido :
    /\ ultima' = Operacion("verificarUltimoMomento",
                           [horarioPartido |-> horarioPartido],
                           [esUltimoMomento |->
                              verificarUltimoMomento(horarioPartido)])
    /\ UNCHANGED <<PLAYERS, MATCHES, respondieronSI>>

NextFlujos ==
  \/ CheckConfirmaciones
  \/ BuscarReemplazoDePrueba
  \/ RespuestaCandidato
  \/ CancelarJugador
  \/ CancelarPartidoAutomatico
  \/ VerificarUltimoMomento

SpecFlujos == Init /\ [][NextFlujos]_vars

(***************************************************************************)
(* The grouping of the daily trigger, applied to the eligible players of   *)
(* clubs of up to MaxJugadores players and no match yet                    *)
(***************************************************************************)

\* The club has at most MaxJugadores players.
MaxJugadores == 8

\* Levels 1.0 and 1.5 apart (the two tolerances), closer and farther.
NivelesDePrueba == <<3000, 4000, 4500, 5500, 7000>>

\* cuantos[l] times the level NivelesDePrueba[l], in ascending order.
RECURSIVE NivelesRepetidos(_, _)
NivelesRepetidos(cuantos, l) ==
  IF l > Len(NivelesDePrueba) THEN <<>>
  ELSE [k \in 1..cuantos[l] |-> NivelesDePrueba[l]]
       \o NivelesRepetidos(cuantos, l + 1)

\* The players table holds the ids of data/players.ts in their order, all
\* available, with levels ascending or descending along the table.
InitAgrupar ==
  /\ \E cuantos \in [1..Len(NivelesDePrueba) -> 0..MaxJugadores],
        descendente \in BOOLEAN :
       LET niveles == NivelesRepetidos(cuantos, 1)
           n == Len(niveles)
       IN /\ n <= MaxJugadores
          /\ PLAYERS = [k \in 1..n |->
                          Player(PLAYERS_DATA[k].id,
                                 IF descendente THEN niveles[n + 1 - k]
                                 ELSE niveles[k],
                                 PLAYERS_DATA[k].telefono, TRUE)]
  /\ MATCHES = <<>>
  /\ ultima = Operacion("ninguna", [ninguno |-> TRUE], [ninguno |-> TRUE])
  /\ respondieronSI = {}

\* PASO 2 and PASO 3 of ejecutarTriggerDiario.
AgruparElegibles ==
  LET jugadores == obtenerJugadoresElegibles(MATCHES)
  IN /\ ultima' = Operacion("agruparJugadoresPorNivel",
                            [jugadores |-> jugadores],
                            agruparJugadoresPorNivel(jugadores))
     /\ UNCHANGED <<PLAYERS, MATCHES, respondieronSI>>

NextAgrupar == AgruparElegibles

SpecAgrupar == InitAgrupar /\ [][NextAgrupar]_vars

(***************************************************************************)
(* The daily trigger run on clubs of up to MaxClub available players and   *)
(* no match yet, for every day of a week (CASO 6 of the trigger: many      *)
(* eligible players, few slots)                                            *)
(***************************************************************************)

\* The club has at most MaxClub players.
MaxClub == 24

\* The level step between consecutive players of the table: all equal, close,
\* four to a default-tolerance window.
PasosDeNivel == {0, 100, 300}

\* Omitted (0), and Monday 10 to Sunday 16 of February 2025.
FechasClub == {0} \cup (10..16)

InitClub ==
  /\ \E n \in 0..MaxClub, paso \in PasosDeNivel :
       PLAYERS = [k \in 1..n |->
                    Player("p" \o ToString(k), 1000 + paso * (k - 1),
                           "54911" \o ToString(10000000 + k), TRUE)]
  /\ MATCHES = <<>>
  /\ ultima = Operacion("ninguna", [ninguno |-> TRUE], [ninguno |-> TRUE])
  /\ respondieronSI = {}

TriggerDelClub ==
  \E fecha \in FechasClub :
    LET r == ejecutarTriggerDiario(MATCHES, fecha, InstanteTrigger)
    IN /\ MATCHES' = r.ms
       /\ ultima' = Operacion("ejecutarTriggerDiario",
                              [fechaObjetivoMock |-> fecha,
                               ahoraMock |-> InstanteTrigger],
                              SinMs(r))
       /\ UNCHANGED <<PLAYERS, respondieronSI>>

NextClub == TriggerDelClub

SpecClub == InitClub /\ [][NextClub]_vars

(***************************************************************************)
(* The confirmation flow called directly, as its test cases call it,       *)
(* between the answers of players to the notifications of m9               *)
(***************************************************************************)

\* The phones of CASO 1 (p6), CASO 3 (p3), CASO 5 (p1) and CASO 6 (p8) of
\* confirmationFlow and one that belongs to nobody.
TelefonosConfirmacion ==
  {"5491177889900", "5491144556677", "5491122334455", "5491199001122",
   "5490000000000"}

\* The matches of those cases (m1, m2, m4), the canceled m5, the completed
\* m6, the notified m9 and a match that does not exist.
PartidosConfirmacion == {"m1", "m2", "m4", "m5", "m6", "m9", "m99"}

ConfirmarAsistencia ==
  \E telefono \in TelefonosConfirmacion, matchId \in PartidosConfirmacion,
     respuesta \in ConfirmationResponse :
    /\ ultima' = Operacion("simularConfirmarAsistencia",
                           [telefonoJugador |-> telefono, matchId |-> matchId,
                            respuesta |-> respuesta],
                           simularConfirmarAsistencia(MATCHES, telefono,
                                                      matchId, respuesta))
    /\ UNCHANGED <<PLAYERS, MATCHES, respondieronSI>>

NextAsistencia ==
  \/ RespuestaJugador
  \/ ConfirmarAsistencia

SpecAsistencia == Init /\ [][NextAsistencia]_vars

(***************************************************************************)
(* Repeated confirmation scans of m9 with records pending or confirmed and *)
(* the players available or not (CASO 5 of the trigger: nobody can         *)
(* replace)                                                                *)
(***************************************************************************)

InitVacante ==
  /\ \E nd \in PerfilesNoDisponibles,
        e9 \in [1..4 -> {"pending", "confirmed"}] :
       /\ PLAYERS = [i \in 1..Len(PLAYERS_DATA) |->
                       IF PLAYERS_DATA[i].id \in nd
                       THEN [PLAYERS_DATA[i] EXCEPT !.disponible = FALSE]
                       ELSE PLAYERS_DATA[i]]
       /\ MATCHES = MATCHES_DATA(<<e9[1], e9[2], e9[3], e9[4]>>)
  /\ ultima = Operacion("ninguna", [ninguno |-> TRUE], [ninguno |-> TRUE])
  /\ respondieronSI = {}

NextVacante ==
  \/ CheckConfirmaciones
  \/ RespuestaJugador

SpecVacante == InitVacante /\ [][NextVacante]_vars

(***************************************************************************)
(* A match from start to end: players sign up one after another and then   *)
(* confirm the match the sign-up named ("Ejemplo completo" of the README)  *)
(***************************************************************************)

\* The phones of the README example (p6, p7, p8, p9), of CASO 3 (nobody) and
\* CASO 4 (p4) of createMatchFlow.
TelefonosAnotarse ==
  {"5491177889900", "5491188990011", "5491199001122", "5491100112233",
   "5490000000000", "5491155667788"}

\* null (-1), the horario of CASO 1 and that of the open match m2.
HorariosSolicitados == {-1, ISO(15, 10, 0), ISO(12, 12, 0)}

AnotarseAPartido ==
  \E telefono \in TelefonosAnotarse, horario \in HorariosSolicitados :
    /\ ultima' = Operacion("simularAnotarseAPartido",
                           [telefonoJugador |-> telefono,
                            horarioSolicitado |-> horario,
                            matchId |-> "", respuesta |-> ""],
                           simularAnotarseAPartido(MATCHES, telefono, horario))
    /\ UNCHANGED <<PLAYERS, MATCHES, respondieronSI>>

\* simularConfirmarAsistencia(telefono, r1.matchId!, "SI"), r1 being the
\* result of the sign-up, or the match the previous confirmation was about.
ConfirmarPartidoAnotado ==
  \E telefono \in TelefonosAnotarse :
    LET matchId == IF ultima.op = "simularAnotarseAPartido"
                   THEN ultima.res.matchId ELSE ultima.args.matchId
    IN /\ ultima.op \in {"simularAnotarseAPartido",
                         "simularConfirmarAsistencia"}
       /\ matchId # ""
       /\ ultima' = Operacion("simularConfirmarAsistencia",
                              [telefonoJugador |-> telefono,
                               horarioSolicitado |-> -1,
                               matchId |-> matchId, respuesta |-> "SI"],
                              simularConfirmarAsistencia(MATCHES, telefono,
                                                         matchId, "SI"))
       /\ UNCHANGED <<PLAYERS, MATCHES, respondieronSI>>

NextAnotarse ==
  \/ AnotarseAPartido
  \/ ConfirmarPartidoAnotado

SpecAnotarse == Init /\ [][NextAnotarse]_vars

(***************************************************************************)
(* Properties                                                              *)
(***************************************************************************)

\* C1: when ejecutarCheckConfirmaciones(t) runs twice in a row with the same
\* t, the second run changes no match and no notification record, starts no
\* replacement search, cancels nothing and sends nothing: each of its
\* per-match results is sin_cambios or error.
C1_ScanIdempotente ==
  [][(/\ ultima.op = "ejecutarCheckConfirmaciones"
      /\ ultima'.op = "ejecutarCheckConfirmaciones"
      /\ ultima'.args.ahora = ultima.args.ahora)
     => /\ MATCHES' = MATCHES
        /\ ultima'.res.busquedas = <<>>
        /\ ultima'.res.cancelaciones = <<>>
        /\ ultima'.res.enviados = <<>>
        /\ \A k \in 1..Len(ultima'.res.resultados) :
             ultima'.res.resultados[k].accion \in {"sin_cambios", "error"}]_vars

\* The state after a scan that visited a match and changed nothing, the match
\* holding a record that a scan at the same instant had moved to timeout.
C1_Witness ==
  /\ ultima.op = "ejecutarCheckConfirmaciones"
  /\ ultima.res.partidosRevisados > 0
  /\ \A k \in 1..Len(ultima.res.resultados) :
       ultima.res.resultados[k].accion = "sin_cambios"
  /\ \E i \in 1..Len(MATCHES) :
       /\ MATCHES[i].estado = "notified"
       /\ \E k \in 1..Len(MATCHES[i].notificaciones) :
            /\ MATCHES[i].notificaciones[k].estado = "timeout"
            /\ MATCHES[i].notificaciones[k].respondioEn = ultima.args.ahora

PartidoConRegistroPendiente(telefono) ==
  LET pa == encontrarPartidoActivoDelJugador(MATCHES, telefono)
      jugador == getPlayerByPhone(telefono)
  IN IF /\ pa # 0
        /\ jugador # NoPlayer
        /\ RegistroDe(MATCHES[pa], jugador.id).estado = "pending"
     THEN pa ELSE 0

\* C4: when procesarRespuestaJugador receives SI from a player whose record in
\* their notified match is pending, the record becomes confirmed and the
\* action returned is confirmado.
C4_SiConfirmaRegistro ==
  [][\A telefono \in Telefonos :
       (/\ ultima'.op = "procesarRespuestaJugador"
        /\ ultima'.args = [telefono |-> telefono, respuesta |-> "SI"]
        /\ PartidoConRegistroPendiente(telefono) # 0)
       => LET pa == PartidoConRegistroPendiente(telefono)
          IN /\ ultima'.res.accion = "confirmado"
             /\ RegistroDe(MATCHES'[pa], getPlayerByPhone(telefono).id).estado
                  = "confirmed"]_vars

\* C5: once the four players of a notified match have answered SI while
\* their records were pending, the next confirmation scan leaves the match
\* confirmed, and neither marks a timeout nor starts a replacement search
\* on it.
C5_CuatroSiConfirmanPartido ==
  [][\A i \in 1..Len(MATCHES) :
       (/\ ultima'.op = "ejecutarCheckConfirmaciones"
        /\ MATCHES[i].estado = "notified"
        /\ Len(MATCHES[i].jugadores) = 4
        /\ \A k \in 1..4 :
             <<MATCHES[i].id, MATCHES[i].jugadores[k]>> \in respondieronSI)
       => /\ MATCHES'[i].estado = "confirmed"
          /\ \A k \in 1..Len(MATCHES'[i].notificaciones) :
               MATCHES'[i].notificaciones[k].estado # "timeout"
          /\ \A k \in 1..Len(ultima'.res.busquedas) :
               ultima'.res.busquedas[k].matchId # MATCHES[i].id]_vars

\* C6: a scan that finds a notified match with exactly 4 records, all
\* confirmed, sets the match to confirmed, reports partido_confirmado and
\* sends one confirmation notice to each member; a confirmed match is
\* visited by no scan and its records never change.
C6_TodosConfirmaronCierra ==
  [][\A i \in 1..Len(MATCHES) :
       LET m == MATCHES[i]
           res == ultima'.res
       IN /\ (/\ ultima'.op = "ejecutarCheckConfirmaciones"
              /\ m.estado = "notified"
              /\ Len(m.notificaciones) = 4
              /\ \A k \in 1..4 : m.notificaciones[k].estado = "confirmed")
             => /\ MATCHES'[i].estado = "confirmed"
                /\ \E k \in 1..Len(res.resultados) :
                     res.resultados[k] =
                       PartidoCheckResult(m.id, "partido_confirmado", 0)
                /\ \A j \in 1..Len(m.jugadores) :
                     Cardinality(
                       {k \in 1..Len(res.enviados) :
                          res.enviados[k] =
                            Mensaje("partido_confirmado",
                                    getPlayerById(m.jugadores[j]).telefono,
                                    m.id)}) = 1
          /\ m.estado = "confirmed"
             => /\ MATCHES'[i].notificaciones = m.notificaciones
                /\ MATCHES'[i].estado = "confirmed"
                /\ ultima'.op = "ejecutarCheckConfirmaciones"
                   => \A k \in 1..Len(res.resultados) :
                        res.resultados[k].matchId # m.id]_vars

\* A scan has just passed over a match that an earlier scan confirmed: the
\* match is confirmed with its four confirmed records, whose deadline is
\* before the scan's instant, and the scan reports nothing on it.
C6_Witness ==
  /\ ultima.op = "ejecutarCheckConfirmaciones"
  /\ \E i \in 1..Len(MATCHES) :
       /\ MATCHES[i].estado = "confirmed"
       /\ MATCHES[i].confirmados = MATCHES[i].jugadores
       /\ Len(MATCHES[i].notificaciones) = 4
       /\ \A k \in 1..4 :
            /\ MATCHES[i].notificaciones[k].estado = "confirmed"
            /\ MATCHES[i].notificaciones[k].tiempoLimite < ultima.args.ahora
       /\ \A k \in 1..Len(ultima.res.resultados) :
            ultima.res.resultados[k].matchId # MATCHES[i].id

\* C7: when procesarRespuestaJugador receives NO from a player whose record in
\* their notified match is pending, the record becomes rejected, the action
\* returned is rechazado, and simularBuscarReemplazo is called for that
\* player on that match with intento 1.
C7_NoRechazaYBuscaReemplazo ==
  [][\A telefono \in Telefonos :
       (/\ ultima'.op = "procesarRespuestaJugador"
        /\ ultima'.args = [telefono |-> telefono, respuesta |-> "NO"]
        /\ PartidoConRegistroPendiente(telefono) # 0)
       => LET pa == PartidoConRegistroPendiente(telefono)
              id == getPlayerByPhone(telefono).id
          IN /\ ultima'.res.accion = "rechazado"
             /\ RegistroDe(MATCHES'[pa], id).estado = "rejected"
             /\ \E k \in 1..Len(ultima'.res.busquedas) :
                  /\ ultima'.res.busquedas[k].matchId = MATCHES[pa].id
                  /\ ultima'.res.busquedas[k].reemplazadoId = id
                  /\ ultima'.res.busquedas[k].intento = 1]_vars

\* The matches the resolver accepts: those neither canceled nor completed.
PartidosAbiertos ==
  {i \in 1..Len(MATCHES) : MATCHES[i].estado \notin {"canceled", "completed"}}

\* C8: for every match that is neither canceled nor completed, whatever the
\* pool of players, simularBuscarReemplazo answers partido_cancelado when
\* intento is above maxIntentosReemplazo and never when intento is at most
\* maxIntentosReemplazo.
C8_TopeDeIntentos ==
  \A i \in PartidosAbiertos, intento \in 1..MaxIntento :
    \A j \in Range(MATCHES[i].jugadores) :
      (simularBuscarReemplazo(MATCHES, MATCHES[i].id, j, intento).accion
         = "partido_cancelado")
      <=> intento > maxIntentosReemplazo

\* The resolver has just answered partido_cancelado on attempt 4 for a member
\* of a waiting match although a candidate within default tolerance exists.
C8_Witness ==
  /\ ultima.op = "simularBuscarReemplazo"
  /\ ultima.args.intento = maxIntentosReemplazo + 1
  /\ ultima.res.accion = "partido_cancelado"
  /\ LET mi == getMatchById(MATCHES, ultima.args.matchId)
     IN /\ mi \in PartidosAbiertos
        /\ buscarCandidatos(MATCHES[mi], ultima.args.jugadorReemplazadoId,
                            FALSE) # <<>>

\* C9: when simularBuscarReemplazo answers partido_cancelado, the match is
\* closed at once: its state is canceled and a cancellation reason is
\* recorded.
C9_TopeCancelaPartido ==
  [][(/\ ultima'.op = "simularBuscarReemplazo"
      /\ ultima'.res.accion = "partido_cancelado")
     => LET mi == getMatchById(MATCHES', ultima'.args.matchId)
        IN /\ MATCHES'[mi].estado = "canceled"
           /\ MATCHES'[mi].motivoCancelacion # ""]_vars

\* The available players outside the match, other than the one replaced,
\* whose level is within tolerancia of the match average.
Cercanos(m, reemplazadoId, tolerancia) ==
  {PLAYERS[k].id : k \in
     {k \in 1..Len(PLAYERS) :
        /\ PLAYERS[k].disponible
        /\ Abs(PLAYERS[k].nivelNumerico - m.nivelPromedio) <= tolerancia
        /\ PLAYERS[k].id # reemplazadoId
        /\ ~Includes(m.jugadores, PLAYERS[k].id)}}

\* C10: for a match neither canceled nor completed, when no candidate lies
\* within the default tolerance and one lies within the extended tolerance,
\* simularBuscarReemplazo answers no_encontrado on attempts 1 and 3 and
\* encontrado, with a candidate within the extended tolerance, on attempt 2;
\* when a candidate lies within the default tolerance every attempt up to
\* maxIntentosReemplazo proposes a candidate within the default tolerance.
C10_EscalaSoloEnIntento2 ==
  \A i \in PartidosAbiertos :
    \A j \in Range(MATCHES[i].jugadores) :
      LET m == MATCHES[i]
          dentro == Cercanos(m, j, toleranciaDefault)
      IN IF dentro # {}
         THEN \A intento \in 1..maxIntentosReemplazo :
                LET r == simularBuscarReemplazo(MATCHES, m.id, j, intento)
                IN r.accion = "encontrado" /\ r.reemplazanteId \in dentro
         ELSE LET extendidos == Cercanos(m, j, toleranciaExtendida)
                  r2 == simularBuscarReemplazo(MATCHES, m.id, j, 2)
              IN extendidos # {}
                 => /\ simularBuscarReemplazo(MATCHES, m.id, j, 1).accion
                         = "no_encontrado"
                    /\ simularBuscarReemplazo(MATCHES, m.id, j, 3).accion
                         = "no_encontrado"
                    /\ r2.accion = "encontrado"
                    /\ r2.reemplazanteId \in extendidos

\* The resolver has just proposed, on attempt 2, a player more than the
\* default tolerance away from the average of a match that has no candidate
\* within the default tolerance.
C10_Witness ==
  /\ ultima.op = "simularBuscarReemplazo"
  /\ ultima.args.intento = 2
  /\ ultima.res.accion = "encontrado"
  /\ LET m == MATCHES[getMatchById(MATCHES, ultima.args.matchId)]
     IN /\ Cercanos(m, ultima.args.jugadorReemplazadoId, toleranciaDefault) = {}
        /\ ultima.res.reemplazanteId
             \in Cercanos(m, ultima.args.jugadorReemplazadoId,
                          toleranciaExtendida)

\* C11: simularBuscarReemplazo on a match whose state is canceled or
\* completed answers accion error whatever the attempt number, names no
\* candidate, sends nothing and leaves the players and the matches as they
\* were.
C11_PartidoCerradoDaError ==
  [][(/\ ultima'.op = "simularBuscarReemplazo"
      /\ LET mi == getMatchById(MATCHES, ultima'.args.matchId)
         IN /\ mi # 0
            /\ MATCHES[mi].estado \in {"canceled", "completed"})
     => /\ ultima'.res.accion = "error"
        /\ ultima'.res.success = FALSE
        /\ ultima'.res.reemplazanteId = ""
        /\ ultima'.res.enviados = <<>>
        /\ MATCHES' = MATCHES
        /\ PLAYERS' = PLAYERS]_vars

\* The resolver has just answered error for the completed m6 on an attempt
\* above the cap, and for no other reason than the state of the match: a
\* candidate within the default tolerance exists.
C11_Witness ==
  /\ ultima.op = "simularBuscarReemplazo"
  /\ ultima.args.intento > maxIntentosReemplazo
  /\ ultima.res.accion = "error"
  /\ LET mi == getMatchById(MATCHES, ultima.args.matchId)
     IN /\ mi # 0
        /\ MATCHES[mi].estado = "completed"
        /\ buscarCandidatos(MATCHES[mi], ultima.args.jugadorReemplazadoId,
                            FALSE) # <<>>

\* C12: when simularBuscarReemplazo answers encontrado, every match (its
\* player list, confirmados, state and notification records) and every player
\* is exactly as before the call, and the candidate it proposes is neither in
\* the player list of the match nor the subject of one of its records.
C12_ProponerNoCambiaPartido ==
  [][(/\ ultima'.op = "simularBuscarReemplazo"
      /\ ultima'.res.accion = "encontrado")
     => /\ MATCHES' = MATCHES
        /\ PLAYERS' = PLAYERS
        /\ ultima'.res.reemplazanteId # ""
        /\ LET mi == getMatchById(MATCHES', ultima'.args.matchId)
           IN /\ ~Includes(MATCHES'[mi].jugadores, ultima'.res.reemplazanteId)
              /\ RegistroDe(MATCHES'[mi], ultima'.res.reemplazanteId).estado = ""]_vars

\* The resolver has just proposed a candidate for a member of the notified
\* m9, a match of four players with one record each.
C12_Witness ==
  /\ ultima.op = "simularBuscarReemplazo"
  /\ ultima.res.accion = "encontrado"
  /\ ultima.res.reemplazanteId # ""
  /\ LET mi == getMatchById(MATCHES, ultima.args.matchId)
     IN /\ MATCHES[mi].estado = "notified"
        /\ Len(MATCHES[mi].jugadores) = 4
        /\ Len(MATCHES[mi].notificaciones) = 4
        /\ Includes(MATCHES[mi].jugadores, ultima.args.jugadorReemplazadoId)

\* C13: when a candidate accepts (simularRespuestaCandidato with acepto on an
\* existing match that lists the vacated player), the substitution is carried
\* out: the candidate takes the vacated player's place in the player list,
\* the number of players is unchanged, and in a match that keeps notification
\* records the vacated player's record becomes replaced and every player of
\* the match has exactly one record.
C13_AceptarSustituye ==
  [][(/\ ultima'.op = "simularRespuestaCandidato"
      /\ ultima'.args.acepto
      /\ ultima'.res.accion = "encontrado"
      /\ LET mi == getMatchById(MATCHES, ultima'.args.matchId)
         IN Includes(MATCHES[mi].jugadores, ultima'.args.jugadorReemplazadoId))
     => LET mi == getMatchById(MATCHES, ultima'.args.matchId)
            antes == MATCHES[mi]
            despues == MATCHES'[mi]
            sale == ultima'.args.jugadorReemplazadoId
            entra == ultima'.args.candidatoId
        IN /\ despues.jugadores =
                [k \in 1..Len(antes.jugadores) |->
                   IF antes.jugadores[k] = sale THEN entra
                   ELSE antes.jugadores[k]]
           /\ antes.notificaciones # <<>>
                => /\ RegistroDe(despues, sale).estado = "replaced"
                   /\ \A j \in Range(despues.jugadores) :
                        Cardinality({k \in 1..Len(despues.notificaciones) :
                                       despues.notificaciones[k].playerId = j}) = 1]_vars

\* The results of a chain that starts with the result r and goes on, as long
\* as r proposes a candidate and for at most largo answers, with that
\* candidate declining.
RECURSIVE CadenaDeRechazos(_, _)
CadenaDeRechazos(r, largo) ==
  IF r.accion # "encontrado" \/ largo = 0 THEN <<r>>
  ELSE <<r>> \o CadenaDeRechazos(
                  simularRespuestaCandidato(MATCHES, r.matchId, r.reemplazanteId,
                                            r.reemplazadoId, FALSE, r.intento),
                  largo - 1)

\* C14: when an existing candidate declines at attempt n for an existing
\* match, simularRespuestaCandidato returns exactly what
\* simularBuscarReemplazo returns for the same match and vacated player at
\* attempt n + 1, and changes nothing; and the chain of proposals and declines
\* for that match and vacated player that starts with a proposal at attempt 1
\* ends in partido_cancelado after at most maxIntentosReemplazo declines.
C14_RechazoReintentaYTermina ==
  [][(/\ ultima'.op = "simularRespuestaCandidato"
      /\ ~ultima'.args.acepto
      /\ getMatchById(MATCHES, ultima'.args.matchId) # 0
      /\ getPlayerById(ultima'.args.candidatoId) # NoPlayer)
     => /\ ultima'.res =
             simularBuscarReemplazo(MATCHES, ultima'.args.matchId,
                                    ultima'.args.jugadorReemplazadoId,
                                    ultima'.args.intentoActual + 1)
        /\ MATCHES' = MATCHES
        /\ PLAYERS' = PLAYERS
        /\ LET cadena ==
                 CadenaDeRechazos(
                   simularBuscarReemplazo(MATCHES, ultima'.args.matchId,
                                          ultima'.args.jugadorReemplazadoId, 1),
                   MaxIntento + 1)
           IN cadena[1].accion = "encontrado"
                => /\ cadena[Len(cadena)].accion = "partido_cancelado"
                   /\ Len(cadena) - 1 <= maxIntentosReemplazo]_vars

\* The candidate proposed on the last attempt allowed has just declined and
\* the answer is partido_cancelado: the end of a chain that started with a
\* proposal at attempt 1.
C14_Witness ==
  /\ ultima.op = "simularRespuestaCandidato"
  /\ ~ultima.args.acepto
  /\ ultima.args.intentoActual = maxIntentosReemplazo
  /\ ultima.res.accion = "partido_cancelado"
  /\ simularBuscarReemplazo(MATCHES, ultima.args.matchId,
                            ultima.args.jugadorReemplazadoId, 1).accion
       = "encontrado"
  /\ simularBuscarReemplazo(MATCHES, ultima.args.matchId,
                            ultima.args.jugadorReemplazadoId,
                            ultima.args.intentoActual).reemplazanteId
       = ultima.args.candidatoId

\* C15: a match that is canceled or completed cannot be cancelled again:
\* simularCancelarJugador and simularCancelarPartidoAutomatico, asked to
\* cancel such a match, return an error outcome (success false, tipoMotivo
\* error) and send no cancellation notice.
C15_PartidoCerradoNoSeCancela ==
  [][(/\ ultima'.op \in {"simularCancelarJugador",
                         "simularCancelarPartidoAutomatico"}
      /\ LET mi == getMatchById(MATCHES, ultima'.args.matchId)
         IN /\ mi # 0
            /\ MATCHES[mi].estado \in {"canceled", "completed"})
     => /\ ultima'.res.success = FALSE
        /\ ultima'.res.tipoMotivo = "error"
        /\ ultima'.res.enviados = <<>>]_vars

\* C16: simularCancelarPartidoAutomatico with reason r on an existing match
\* that is neither canceled nor completed returns success with tipoMotivo r
\* and requiereReemplazo false, and leaves the match in state canceled with r
\* recorded as its cancellation reason.
C16_CancelacionAutomaticaCierra ==
  [][(/\ ultima'.op = "simularCancelarPartidoAutomatico"
      /\ LET mi == getMatchById(MATCHES, ultima'.args.matchId)
         IN /\ mi # 0
            /\ MATCHES[mi].estado \notin {"canceled", "completed"})
     => LET mi == getMatchById(MATCHES, ultima'.args.matchId)
        IN /\ ultima'.res.success
           /\ ultima'.res.tipoMotivo = ultima'.args.motivo
           /\ ultima'.res.requiereReemplazo = FALSE
           /\ MATCHES'[mi].estado = "canceled"
           /\ MATCHES'[mi].motivoCancelacion = ultima'.args.motivo]_vars

C19_GruposDeCuatroParticionan ==
  ultima.op = "agruparJugadoresPorNivel"
    => LET jugadores == ultima.args.jugadores
           grupos == ultima.res.grupos
           sinGrupo == ultima.res.sinGrupo
           IdsDe(g) == {g[k].id : k \in 1..Len(g)}
       IN /\ \A i \in 1..Len(grupos) :
               /\ Len(grupos[i]) = 4
               /\ Cardinality(IdsDe(grupos[i])) = 4
          /\ \A i, j \in 1..Len(grupos) :
               i # j => IdsDe(grupos[i]) \cap IdsDe(grupos[j]) = {}
          /\ IdsDe(FlatSeq(grupos)) \cap IdsDe(sinGrupo) = {}
          /\ Range(FlatSeq(grupos)) \cup Range(sinGrupo) = Range(jugadores)
          /\ 4 * Len(grupos) + Len(sinGrupo) = Len(jugadores)

\* Eight players with distinct ids have just been split into two groups.
C19_Witness ==
  /\ ultima.op = "agruparJugadoresPorNivel"
  /\ Cardinality({ultima.args.jugadores[k].id :
                    k \in 1..Len(ultima.args.jugadores)})
       = Len(ultima.args.jugadores)
  /\ Len(ultima.res.grupos) = 2

\* C20: in every group agruparJugadoresPorNivel forms, the level of each
\* member other than the anchor is within the tolerance used for that anchor:
\* toleranciaDefault when at least 3 unused players other than the anchor
\* were within toleranciaDefault of the anchor when the group was formed,
\* toleranciaExtendida otherwise; so no member is farther than
\* toleranciaExtendida from its anchor.
C20_MiembrosDentroDeTolerancia ==
  ultima.op = "agruparJugadoresPorNivel"
    => LET jugadores == ultima.args.jugadores
           pool == SortByKey(jugadores,
                     [k \in 1..Len(jugadores) |-> jugadores[k].nivelNumerico])
           r == agruparDesde(pool, 1, {}, <<>>)
       IN /\ r.grupos = ultima.res.grupos
          /\ Len(r.formados) = Len(r.grupos)
          /\ \A g \in 1..Len(r.grupos) :
               LET ancla == r.formados[g].ancla
                   libres == {k \in 1..Len(pool) :
                                /\ pool[k].id \notin r.formados[g].usadosAntes
                                /\ pool[k].id # ancla.id}
                   dentroDefault ==
                     {k \in libres :
                        Abs(pool[k].nivelNumerico - ancla.nivelNumerico)
                          <= toleranciaDefault}
                   tolerancia == IF Cardinality(dentroDefault) >= 3
                                 THEN toleranciaDefault
                                 ELSE toleranciaExtendida
               IN /\ \E k \in 1..4 : r.grupos[g][k] = ancla
                  /\ \A k \in 1..4 :
                       /\ Abs(r.grupos[g][k].nivelNumerico - ancla.nivelNumerico)
                            <= tolerancia
                       /\ Abs(r.grupos[g][k].nivelNumerico - ancla.nivelNumerico)
                            <= toleranciaExtendida

\* A group has just been formed with the extended tolerance (CASO 5 of the
\* trigger's test cases): one of its members is farther than
\* toleranciaDefault from the anchor, and the anchor is not the lowest level
\* of the pool.
C20_Witness ==
  /\ ultima.op = "agruparJugadoresPorNivel"
  /\ LET jugadores == ultima.args.jugadores
         pool == SortByKey(jugadores,
                   [k \in 1..Len(jugadores) |-> jugadores[k].nivelNumerico])
         r == agruparDesde(pool, 1, {}, <<>>)
     IN \E g \in 1..Len(r.grupos) :
          /\ \E k \in 1..4 :
               Abs(r.grupos[g][k].nivelNumerico
                     - r.formados[g].ancla.nivelNumerico) > toleranciaDefault
          /\ r.formados[g].ancla.nivelNumerico > pool[1].nivelNumerico

\* C21: a player who, reached as anchor by agruparJugadoresPorNivel, has
\* fewer than 3 unused players within toleranciaExtendida is left out for the
\* whole run: that player is in no group of the result and is in sinGrupo.
C21_AnclaOmitidaQuedaSinGrupo ==
  ultima.op = "agruparJugadoresPorNivel"
    => LET jugadores == ultima.args.jugadores
           pool == SortByKey(jugadores,
                     [k \in 1..Len(jugadores) |-> jugadores[k].nivelNumerico])
           r == agruparDesde(pool, 1, {}, <<>>)
           enGrupos == {p.id : p \in Range(FlatSeq(ultima.res.grupos))}
           enSinGrupo == {p.id : p \in Range(ultima.res.sinGrupo)}
       IN \A id \in r.omitidos : id \notin enGrupos /\ id \in enSinGrupo

C23_PoolDeSlotsEnOrden ==
  [][(/\ ultima'.op = "ejecutarTriggerDiario"
      /\ ultima'.res.errores \notin {<<"pocos_jugadores_elegibles">>,
                                     <<"sin_canchas_disponibles">>})
     => LET fecha == ultima'.res.fechaObjetivo
            dia == calcularDiaSemana(fecha)
            grupos ==
              agruparJugadoresPorNivel(obtenerJugadoresElegibles(MATCHES)).grupos
            pares ==
              {par \in (1..Len(slots)) \X (1..Len(COURTS)) :
                 /\ COURTS[par[2]].activa
                 /\ \E d \in 1..Len(COURTS[par[2]].diasDisponibles) :
                      COURTS[par[2]].diasDisponibles[d] = dia
                 /\ \E h \in 1..Len(COURTS[par[2]].horariosDisponibles) :
                      COURTS[par[2]].horariosDisponibles[h] = slots[par[1]]}
            hasta(par) ==
              {q \in pares : \/ q[1] < par[1]
                             \/ q[1] = par[1] /\ q[2] <= par[2]}
            propuestas == ultima'.res.proposals
        IN /\ Len(propuestas) = IF Len(grupos) <= Cardinality(pares)
                                THEN Len(grupos) ELSE Cardinality(pares)
           /\ \A k \in 1..Len(propuestas) :
                /\ propuestas[k].jugadores = grupos[k]
                /\ \E par \in pares :
                     /\ Cardinality(hasta(par)) = k
                     /\ propuestas[k].canchaId = COURTS[par[2]].id
                     /\ propuestas[k].horario = ISO(fecha, 0, slots[par[1]])]_vars

\* A run whose second and third proposals share a slot on two courts.
C23_Witness ==
  /\ ultima.op = "ejecutarTriggerDiario"
  /\ Len(ultima.res.proposals) >= 4
  /\ ultima.res.proposals[2].horario = ultima.res.proposals[3].horario
  /\ ultima.res.proposals[2].canchaId = "c1"
  /\ ultima.res.proposals[3].canchaId = "c2"
  /\ ultima.res.proposals[4].horario > ultima.res.proposals[3].horario

\* C24: slot shortfall is non-fatal: a daily run that forms more groups than
\* the pool has slots appends one match for each of the first (number of
\* slots) groups, in formation order, and none for the other groups, records
\* the shortfall in errores and returns a result counting the created matches.
C24_FaltaDeSlotsNoAborta ==
  [][LET fecha == IF ultima'.args.fechaObjetivoMock = 0
                  THEN calcularManana(ultima'.args.ahoraMock)
                  ELSE ultima'.args.fechaObjetivoMock
         grupos ==
           agruparJugadoresPorNivel(obtenerJugadoresElegibles(MATCHES)).grupos
         pool == generarPoolDeSlots(
                   getAvailableCourtsByDay(calcularDiaSemana(fecha)), fecha)
     IN (/\ ultima'.op = "ejecutarTriggerDiario"
         /\ Len(pool) > 0
         /\ Len(grupos) > Len(pool))
        => /\ Len(MATCHES') = Len(MATCHES) + Len(pool)
           /\ SubSeq(MATCHES', 1, Len(MATCHES)) = MATCHES
           /\ \A k \in 1..Len(pool) :
                /\ MATCHES'[Len(MATCHES) + k].jugadores =
                     [j \in 1..Len(grupos[k]) |-> grupos[k][j].id]
                /\ MATCHES'[Len(MATCHES) + k].estado = "notified"
           /\ ultima'.res.errores = <<"slots_insuficientes">>
           /\ ultima'.res.partidosCreados = Len(pool)
           /\ Len(ultima'.res.proposals) = Len(pool)]_vars

\* A run on a day with five slots that formed six groups: five matches, and
\* the four players of the sixth group in none.
C24_Witness ==
  /\ ultima.op = "ejecutarTriggerDiario"
  /\ ultima.res.errores = <<"slots_insuficientes">>
  /\ Len(PLAYERS) = 24
  /\ Len(MATCHES) = 5
  /\ \A k \in 1..Len(MATCHES) : PLAYERS[24].id \notin Range(MATCHES[k].jugadores)

\* C25: in every reachable state every match has at most 4 players, and a
\* match that carries notification records has exactly one record per member
\* of its player list and none for anybody else; a match the daily trigger
\* created has 4 members and 4 records.
C25_UnRegistroPorMiembro ==
  \A k \in 1..Len(MATCHES) :
    LET m == MATCHES[k]
    IN /\ Len(m.jugadores) <= 4
       /\ m.notificaciones # <<>>
          => /\ Len(m.notificaciones) = Len(m.jugadores)
             /\ \A j \in 1..Len(m.jugadores) :
                  Cardinality({n \in 1..Len(m.notificaciones) :
                     m.notificaciones[n].playerId = m.jugadores[j]}) = 1
             /\ \A n \in 1..Len(m.notificaciones) :
                  m.notificaciones[n].playerId \in Range(m.jugadores)
       /\ m.creadoEn = InstanteTrigger
          => Len(m.jugadores) = 4 /\ Len(m.notificaciones) = 4

\* The daily trigger has created the match m10, and the confirmation scan has
\* since timed out one of its records.
C25_Witness ==
  \E k \in 1..Len(MATCHES) :
    /\ MATCHES[k].id = "m10"
    /\ MATCHES[k].creadoEn = InstanteTrigger
    /\ MATCHES[k].estado = "notified"
    /\ \E n \in 1..Len(MATCHES[k].notificaciones) :
         MATCHES[k].notificaciones[n].estado = "timeout"

\* C26: simularConfirmarAsistencia answers accion error and changes nothing,
\* whatever the response, when no player has the phone, the match does not
\* exist, the player is not a member of the match, or the match is canceled
\* or completed; a non-member asking about a closed match is told they are
\* not in the match.
C26_ErroresDeConfirmacion ==
  [][ultima'.op = "simularConfirmarAsistencia"
     => LET a == ultima'.args
            quienes == {k \in 1..Len(PLAYERS) :
                          PLAYERS[k].telefono = a.telefonoJugador}
            cuales == {k \in 1..Len(MATCHES) : MATCHES[k].id = a.matchId}
            jugador == PLAYERS[CHOOSE k \in quienes : \A q \in quienes : k <= q]
            partido == MATCHES[CHOOSE k \in cuales : TRUE]
            noMiembro == \A j \in 1..Len(partido.jugadores) :
                           partido.jugadores[j] # jugador.id
            cerrado == partido.estado \in {"canceled", "completed"}
        IN /\ (quienes = {} \/ cuales = {} \/ noMiembro \/ cerrado)
              => /\ ultima'.res.accion = "error"
                 /\ ultima'.res.success = FALSE
                 /\ MATCHES' = MATCHES
                 /\ PLAYERS' = PLAYERS
           /\ (quienes # {} /\ cuales # {} /\ noMiembro /\ cerrado)
              => ultima'.res.mensaje = "no_estas_en_ese_partido"
           /\ (quienes # {} /\ cuales # {} /\ ~noMiembro /\ cerrado)
              => ultima'.res.mensaje = "partido_ya_cerrado"]_vars

\* p8, who is not in the canceled m4, has just answered about it.
C26_Witness ==
  /\ ultima.op = "simularConfirmarAsistencia"
  /\ ultima.args.telefonoJugador = "5491199001122"
  /\ ultima.args.matchId = "m4"
  /\ ultima.args.respuesta = "TIMEOUT"
  /\ ultima.res.accion = "error"

\* C27: a player who has already confirmed their place in a match that is
\* not canceled or completed (their record in the notified match is
\* confirmed, or they are listed in confirmados) and answers SI again,
\* through procesarRespuestaJugador or simularConfirmarAsistencia, gets
\* accion ya_confirmado, and the answer changes no match and no record.
C27_SiRepetidoYaConfirmado ==
  [][(/\ ultima'.op \in {"procesarRespuestaJugador",
                         "simularConfirmarAsistencia"}
      /\ ultima'.args.respuesta = "SI")
     => \A k \in 1..Len(MATCHES) :
          (/\ MATCHES[k].id = ultima'.res.matchId
           /\ ultima'.res.playerId \in Range(MATCHES[k].jugadores)
           /\ MATCHES[k].estado \notin {"canceled", "completed"}
           /\ \/ ultima'.res.playerId \in Range(MATCHES[k].confirmados)
              \/ /\ MATCHES[k].estado = "notified"
                 /\ \E n \in 1..Len(MATCHES[k].notificaciones) :
                      /\ MATCHES[k].notificaciones[n].playerId =
                           ultima'.res.playerId
                      /\ MATCHES[k].notificaciones[n].estado = "confirmed")
          => /\ ultima'.res.accion = "ya_confirmado"
             /\ MATCHES' = MATCHES]_vars

\* C28: a vacancy is never silently left unresolved: when a confirmation
\* scan asked the resolver to fill the place of a timed-out player with
\* attempt n and got no_encontrado, and no player is available, the scan
\* that follows it asks the resolver again for that place with attempt
\* n + 1, until the attempts are used up and the match is canceled.
C28_VacanteSeReintenta ==
  [][(/\ ultima.op = "ejecutarCheckConfirmaciones"
      /\ ultima'.op = "ejecutarCheckConfirmaciones"
      /\ ultima'.args.ahora >= ultima.args.ahora
      /\ \A p \in 1..Len(PLAYERS) : ~PLAYERS[p].disponible)
     => \A b \in 1..Len(ultima.res.busquedas) :
          LET fallida == ultima.res.busquedas[b]
          IN fallida.accion = "no_encontrado"
             => \/ \E k \in 1..Len(MATCHES') :
                     /\ MATCHES'[k].id = fallida.matchId
                     /\ MATCHES'[k].estado = "canceled"
                \/ \E c \in 1..Len(ultima'.res.busquedas) :
                     /\ ultima'.res.busquedas[c].matchId = fallida.matchId
                     /\ ultima'.res.busquedas[c].reemplazadoId =
                          fallida.reemplazadoId
                     /\ ultima'.res.busquedas[c].intento = fallida.intento + 1]_vars

\* C29: end-to-end join and confirm: after a sign-up answered creado for
\* match X, the next sign-up, by another player who is available and within
\* toleranciaDefault of the creator's level, asking for the same horario or
\* none, is answered unido for X (two such joins, then completo); and the
\* creator's SI for X is then answered confirmado, partidoCompleto false.
C29_AnotarseUnirseConfirmar ==
  [][(/\ ultima.op = "simularAnotarseAPartido"
      /\ ultima.res.estado = "creado")
     => LET creador == {p \in 1..Len(PLAYERS) :
                          PLAYERS[p].telefono = ultima.args.telefonoJugador}
            quien == {p \in 1..Len(PLAYERS) :
                        PLAYERS[p].telefono = ultima'.args.telefonoJugador}
            c == PLAYERS[CHOOSE p \in creador : \A q \in creador : p <= q]
            j == PLAYERS[CHOOSE p \in quien : \A q \in quien : p <= q]
        IN /\ (/\ ultima'.op = "simularAnotarseAPartido"
               /\ quien # {}
               /\ j.id # c.id
               /\ j.disponible
               /\ j.nivelNumerico - c.nivelNumerico <= toleranciaDefault
               /\ c.nivelNumerico - j.nivelNumerico <= toleranciaDefault
               /\ ultima'.args.horarioSolicitado
                    \in {-1, ultima.args.horarioSolicitado})
              => /\ ultima'.res.estado = "unido"
                 /\ ultima'.res.matchId = ultima.res.matchId
           /\ (/\ ultima'.op = "simularConfirmarAsistencia"
               /\ ultima'.args.telefonoJugador = ultima.args.telefonoJugador
               /\ ultima'.args.matchId = ultima.res.matchId
               /\ ultima'.args.respuesta = "SI")
              => /\ ultima'.res.accion = "confirmado"
                 /\ ultima'.res.partidoCompleto = "false"]_vars

\* C30: whenever the resolver answers encontrado proposing candidate c for a
\* match and a vacated player, c is available, is not a member of the match,
\* is not the vacated player and lies within the tolerance applied in that
\* attempt of the match average (the extended one on attempt 2 when nobody
\* qualifies at the default, else the default), and no player earlier in
\* PLAYERS qualifies: the proposal is determined by the inputs.
C30_CandidatoPropuesto ==
  LET respuestas ==
        IF ultima.op \in {"simularBuscarReemplazo", "simularRespuestaCandidato"}
        THEN {ultima.res}
        ELSE IF ultima.op = "ejecutarCheckConfirmaciones"
        THEN {ultima.res.busquedas[b] : b \in 1..Len(ultima.res.busquedas)}
        ELSE {}
  IN \A r \in respuestas :
       (r.accion = "encontrado" /\ r.mensaje = "notificando_candidato")
       => \E i \in 1..Len(MATCHES) :
            /\ MATCHES[i].id = r.matchId
            /\ LET m == MATCHES[i]
                   sirve(k, tolerancia) ==
                     /\ PLAYERS[k].disponible
                     /\ \A j \in 1..Len(m.jugadores) :
                          m.jugadores[j] # PLAYERS[k].id
                     /\ PLAYERS[k].id # r.reemplazadoId
                     /\ PLAYERS[k].nivelNumerico - m.nivelPromedio <= tolerancia
                     /\ m.nivelPromedio - PLAYERS[k].nivelNumerico <= tolerancia
                   aplicada ==
                     IF /\ r.intento = 2
                        /\ \A k \in 1..Len(PLAYERS) : ~sirve(k, toleranciaDefault)
                     THEN toleranciaExtendida ELSE toleranciaDefault
               IN \E c \in 1..Len(PLAYERS) :
                    /\ PLAYERS[c].id = r.reemplazanteId
                    /\ sirve(c, aplicada)
                    /\ \A k \in 1..(c - 1) : ~sirve(k, aplicada)

\* The resolver has proposed, on attempt 2, a candidate farther than the
\* default tolerance from the match average, players before them in the
\* table being unavailable.
C30_Witness ==
  /\ ultima.op = "simularBuscarReemplazo"
  /\ ultima.res.accion = "encontrado"
  /\ ultima.res.intento = 2
  /\ \E c \in 1..Len(PLAYERS), i \in 1..Len(MATCHES) :
       /\ PLAYERS[c].id = ultima.res.reemplazanteId
       /\ MATCHES[i].id = ultima.res.matchId
       /\ Abs(PLAYERS[c].nivelNumerico - MATCHES[i].nivelPromedio)
            > toleranciaDefault
       /\ \E k \in 1..(c - 1) : ~PLAYERS[k].disponible

\* C31: simularRespuestaCandidato answers accion error, never encontrado,
\* about a match that is canceled or completed, whether the candidate accepts
\* or declines: nobody is reported as having joined a closed match.
C31_RespuestaSobrePartidoCerrado ==
  (ultima.op = "simularRespuestaCandidato")
  => \A i \in 1..Len(MATCHES) :
       (/\ MATCHES[i].id = ultima.args.matchId
        /\ MATCHES[i].estado \in {"canceled", "completed"})
       => /\ ultima.res.accion = "error"
          /\ ultima.res.success = FALSE
          /\ ultima.res.reemplazanteId = ""

\* C32: when a confirmation scan marks expired pending records of a match
\* timeout, it cancels the match (result partido_cancelado, no replacement
\* search) if fewer than 3 of its records remain confirmed or pending, and
\* starts a replacement search for each timed-out player if at least 3 do.
C32_TresActivosORecuperar ==
  [][ultima'.op = "ejecutarCheckConfirmaciones"
     => \A i \in 1..Len(MATCHES) :
          LET antes == MATCHES[i].notificaciones
              despues == MATCHES'[i].notificaciones
              vencieron == {n \in 1..Len(antes) :
                              /\ antes[n].estado = "pending"
                              /\ despues[n].estado = "timeout"}
              activos == Cardinality({n \in 1..Len(despues) :
                           despues[n].estado \in {"confirmed", "pending"}})
              res == ultima'.res
              delPartido == {b \in 1..Len(res.busquedas) :
                               res.busquedas[b].matchId = MATCHES[i].id}
          IN (MATCHES[i].estado = "notified" /\ vencieron # {})
             => IF activos < 3
                THEN /\ \E k \in 1..Len(res.resultados) :
                          /\ res.resultados[k].matchId = MATCHES[i].id
                          /\ res.resultados[k].accion = "partido_cancelado"
                     /\ delPartido = {}
                ELSE \A n \in vencieron :
                       \E b \in delPartido :
                         res.busquedas[b].reemplazadoId = antes[n].playerId]_vars

\* C33: when a proposed replacement candidate declines, the search that
\* follows for the same vacancy proposes somebody else: the player who
\* declined is not proposed again for that vacancy.
C33_QuienRechazaNoSeRepite ==
  (/\ ultima.op = "simularRespuestaCandidato"
   /\ ~ultima.args.acepto
   /\ ultima.res.accion = "encontrado")
  => ultima.res.reemplazanteId # ultima.args.candidatoId

\* C34: a player whose record in their notified match is timeout, rejected
\* or replaced, and whose SI is processed afterwards, is never answered
\* confirmado, and the answer leaves the match notified.
C34_SiTardioNoConfirma ==
  [][(/\ ultima'.op = "procesarRespuestaJugador"
      /\ ultima'.args.respuesta = "SI")
     => \A i \in 1..Len(MATCHES) :
          (/\ MATCHES[i].id = ultima'.res.matchId
           /\ MATCHES[i].estado = "notified"
           /\ \E n \in 1..Len(MATCHES[i].notificaciones) :
                /\ MATCHES[i].notificaciones[n].playerId = ultima'.res.playerId
                /\ MATCHES[i].notificaciones[n].estado
                     \in {"timeout", "rejected", "replaced"})
          => /\ ultima'.res.accion # "confirmado"
             /\ MATCHES'[i].estado = "notified"]_vars

\* C35: in every reachable state, a match that carries notification records
\* and whose estado is confirmed has every record confirmed and a confirmados
\* list equal to its player list.
C35_ConfirmadoConTodosConfirmados ==
  \A i \in 1..Len(MATCHES) :
    (MATCHES[i].estado = "confirmed" /\ MATCHES[i].notificaciones # <<>>)
    => /\ \A n \in 1..Len(MATCHES[i].notificaciones) :
            MATCHES[i].notificaciones[n].estado = "confirmed"
       /\ MATCHES[i].confirmados = MATCHES[i].jugadores

\* A confirmation scan has found the four records of m9 confirmed and has
\* confirmed the match.
C35_Witness ==
  /\ ultima.op = "ejecutarCheckConfirmaciones"
  /\ \E k \in 1..Len(ultima.res.resultados) :
       /\ ultima.res.resultados[k].matchId = "m9"
       /\ ultima.res.resultados[k].accion = "partido_confirmado"
  /\ \E i \in 1..Len(MATCHES) :
       /\ MATCHES[i].id = "m9"
       /\ MATCHES[i].estado = "confirmed"
       /\ Len(MATCHES[i].notificaciones) = 4

C37_CadaElegibleEnPartidoOEnLista ==
  [][ultima'.op = "ejecutarTriggerDiario"
     => LET elegibles == obtenerJugadoresElegibles(MATCHES)
            r == ultima'.res
            enPartido(id) == \E k \in (Len(MATCHES) + 1)..Len(MATCHES') :
                               Includes(MATCHES'[k].jugadores, id)
        IN /\ \A e \in 1..Len(elegibles) :
                enPartido(elegibles[e].id)
                  # Includes(r.jugadoresSinPartido, elegibles[e].id)
           /\ r.jugadoresAgrupados = 4 * r.partidosCreados
           /\ r.jugadoresAgrupados + Len(r.jugadoresSinPartido)
                = Len(elegibles)]_vars

\* C37, amended: in the result of every daily run no eligible player is both
\* a member of a match the run created and listed in jugadoresSinPartido, and
\* jugadoresAgrupados plus the length of jugadoresSinPartido is the number of
\* eligible players; when the run did not run out of slots, each eligible
\* player is in one of the two and jugadoresAgrupados is four times
\* partidosCreados.
C37_CuentasDeLaCorrida ==
  [][ultima'.op = "ejecutarTriggerDiario"
     => LET elegibles == obtenerJugadoresElegibles(MATCHES)
            r == ultima'.res
            enPartido(id) == \E k \in (Len(MATCHES) + 1)..Len(MATCHES') :
                               Includes(MATCHES'[k].jugadores, id)
        IN /\ \A e \in 1..Len(elegibles) :
                ~(/\ enPartido(elegibles[e].id)
                  /\ Includes(r.jugadoresSinPartido, elegibles[e].id))
           /\ r.jugadoresAgrupados + Len(r.jugadoresSinPartido)
                = Len(elegibles)
           /\ ~Includes(r.errores, "slots_insuficientes")
              => /\ \A e \in 1..Len(elegibles) :
                      enPartido(elegibles[e].id)
                        \/ Includes(r.jugadoresSinPartido, elegibles[e].id)
                 /\ r.jugadoresAgrupados = 4 * r.partidosCreados]_vars

\* A run that had slots for all its groups has created matches and has left
\* players without one.
C37_Witness ==
  /\ ultima.op = "ejecutarTriggerDiario"
  /\ ultima.res.partidosCreados >= 2
  /\ Len(ultima.res.jugadoresSinPartido) >= 1
  /\ ultima.res.errores = <<>>


\* C38: after any sequence of daily runs, two runs for the same target date
\* included, no two matches that are neither canceled nor completed have the
\* same court and the same scheduled time.
C38_SinCanchaRepetida ==
  \A a, b \in 1..Len(MATCHES) :
    (/\ a < b
     /\ MATCHES[a].estado \notin {"canceled", "completed"}
     /\ MATCHES[b].estado \notin {"canceled", "completed"})
    => ~(/\ MATCHES[a].canchaId = MATCHES[b].canchaId
         /\ MATCHES[a].horario = MATCHES[b].horario)


\* C39: expiry happens once. A match a daily run cancels for expiry is left
\* canceled by that run, so that its players, when available and in no other
\* waiting, notified or confirmed match, are eligible afterwards, and the
\* daily run that follows neither cancels it again nor counts it in
\* partidosExpiradosCancelados.
C39_ExpiraUnaSolaVez ==
  [][ultima'.op = "ejecutarTriggerDiario"
     => \A c \in 1..Len(ultima'.res.cancelaciones) :
          LET id == ultima'.res.cancelaciones[c].matchId
              mi == getMatchById(MATCHES', id)
              otros == {k \in 1..Len(MATCHES') :
                          /\ k # mi
                          /\ MATCHES'[k].estado
                               \in {"waiting", "notified", "confirmed"}}
              elegibles == obtenerJugadoresElegibles(MATCHES')
          IN /\ MATCHES'[mi].estado = "canceled"
             /\ \A p \in 1..Len(PLAYERS) :
                  (/\ Includes(MATCHES'[mi].jugadores, PLAYERS[p].id)
                   /\ PLAYERS[p].disponible
                   /\ \A k \in otros :
                        ~Includes(MATCHES'[k].jugadores, PLAYERS[p].id))
                  => Includes(elegibles, PLAYERS[p])
             /\ ultima.op = "ejecutarTriggerDiario"
                => /\ \A b \in 1..Len(ultima.res.cancelaciones) :
                        ultima.res.cancelaciones[b].matchId # id
                   /\ ultima.res.partidosExpiradosCancelados = 0]_vars


\* C40: simularCancelarJugador returns a departure (success, tipoMotivo
\* "jugador_cancela") or asks for a replacement only when the player the
\* phone identifies is a member of the match concerned, also when the match
\* is given by an explicit matchId.
C40_SoloUnMiembroCancela ==
  (/\ ultima.op = "simularCancelarJugador"
   /\ \/ ultima.res.success
      \/ ultima.res.tipoMotivo = "jugador_cancela"
      \/ ultima.res.requiereReemplazo)
  => LET mi == getMatchById(MATCHES, ultima.res.matchId)
     IN /\ mi # 0
        /\ Includes(MATCHES[mi].jugadores,
                    getPlayerByPhone(ultima.args.telefonoJugador).id)

====
